---- MODULE Spec2Model ----
(***************************************************************************)
(* Model of the Local RSS plugin (onikun94/obsidian-local-rss): the update *)
(* pass of UpdateFeeds (fetch, parse, per-item write with skip-if-exists,  *)
(* retention sweep), the plugin's run triggers, and the text helpers       *)
(* (template engine, YAML escaping) the writer uses.                       *)
(*                                                                         *)
(* Text is modelled as a sequence of tokens.  A token is a pair <<tag, n>>: *)
(* a piece of text that the regular expressions of the source treat as a   *)
(* unit (one character such as ":", a placeholder such as "{{title}}", a   *)
(* front-matter key such as "publish_date: "), or a formatted date, whose  *)
(* n is the number of whole seconds it shows.  n is 0 for plain text.      *)
(***************************************************************************)
EXTENDS Integers, Sequences, FiniteSets, TLC

VARIABLES
    settings,   \* LocalRssSettings, the plugin's settings object
    web,        \* what each feed URL answers (the feed servers)
    folders,    \* the vault: the folder paths that exist
    files,      \* the vault: file path -> [content, ctime]
    now,        \* Date.now(), in milliseconds
    started,    \* number of calls of LocalRssPlugin.updateFeeds so far
    faults,     \* number of storage operations that failed so far
    run,        \* per call of updateFeeds: the position and locals of the async
                \* function, and (log) the notices it raised and what it did, in order
    tpl,        \* template-rendering harness: the inputs and the output of one rendering
    swp,        \* sweep-decision harness: one file, the settings and the decision
    plugin      \* LocalRssPlugin: loaded or not, updateIntervalId, the timers of the
                \* window, and the interval changes that await saveSettings

vars == <<settings, web, folders, files, now, started, faults, run, tpl, swp, plugin>>

----------------------------------------------------------------------------
(* Text *)

Tok(s) == <<s, 0>>
Str(s) == << Tok(s) >>
Empty == << >>

RECURSIVE Concat(_)
Concat(ss) == IF ss = << >> THEN << >> ELSE Head(ss) \o Concat(Tail(ss))

\* s.replace(/ph/g, v): every occurrence of the token ph replaced by the text v
RECURSIVE ReplaceAll(_, _, _)
ReplaceAll(s, ph, v) ==
    IF s = << >> THEN << >>
    ELSE (IF Head(s) = Tok(ph) THEN v ELSE <<Head(s)>>) \o ReplaceAll(Tail(s), ph, v)

Contains(s, tag) == \E i \in 1..Len(s) : s[i] = Tok(tag)


----------------------------------------------------------------------------
(* Dates.  A JavaScript Date is valid with a time value in milliseconds, or *)
(* invalid (its getTime() is NaN).                                          *)

Time(ms) == [valid |-> TRUE, ms |-> ms]
InvalidDate == [valid |-> FALSE, ms |-> 0]

\* new Date().toISOString(): the time value with millisecond precision
ToISOString(ms) == << <<"iso", ms>> >>

\* new Date(text): an ISO string gives its time value, a text produced by
\* formatDateTime gives the whole second it shows, any other text is invalid
NewDate(text) ==
    IF Len(text) = 1 /\ text[1][1] = "iso" THEN Time(text[1][2])
    ELSE IF Len(text) = 1 /\ text[1][1] = "date" THEN Time(text[1][2] * 1000)
    ELSE InvalidDate

\* UpdateFeeds.formatDateTime: "YYYY-MM-DD HH:mm:ss", the milliseconds are dropped
formatDateTime(date) ==
    IF date.valid THEN << <<"date", date.ms \div 1000>> >>
    ELSE Str("NaN-NaN-NaN NaN:NaN:NaN")

\* JavaScript truthiness of a number: NaN and 0 are falsy
Truthy(date) == date.valid /\ date.ms # 0

----------------------------------------------------------------------------
(* yamlFormatter.ts *)

\* the texts that contain one of [ ] { } : > | * & ! % @ ,
YAML_SPECIAL_CHARS ==
    {":", ",", "[", "]", "{", "}", ">", "|", "*", "&", "!", "%", "@",
     "{{title}}", "{{link}}", "{{author}}", "{{publishedTime}}", "{{savedTime}}",
     "{{image}}", "{{description}}", "{{descriptionShort}}", "{{#tags}}",
     "{{content}}", "{{published}}", "date", "iso", "NaN-NaN-NaN NaN:NaN:NaN",
     "title: ", "saved: ", "publish_date: "}

WhiteSpace == {" ", "\n", "\r", "\t"}

\* value.replace(/\r?\n/g, ' ')
RECURSIVE ReplaceNewlines(_)
ReplaceNewlines(s) ==
    IF s = << >> THEN << >>
    ELSE IF Len(s) >= 2 /\ s[1] = Tok("\r") /\ s[2] = Tok("\n")
         THEN Str(" ") \o ReplaceNewlines(Tail(Tail(s)))
    ELSE IF s[1] = Tok("\n") THEN Str(" ") \o ReplaceNewlines(Tail(s))
    ELSE <<s[1]>> \o ReplaceNewlines(Tail(s))

RECURSIVE TrimStart(_)
TrimStart(s) ==
    IF s # << >> /\ s[1][1] \in WhiteSpace THEN TrimStart(Tail(s)) ELSE s

RECURSIVE TrimEnd(_)
TrimEnd(s) ==
    IF s # << >> /\ s[Len(s)][1] \in WhiteSpace
    THEN TrimEnd(SubSeq(s, 1, Len(s) - 1)) ELSE s

Trim(s) == TrimEnd(TrimStart(s))

\* the two replacements in the other order: the backslash of an escaped quote
\* is escaped again
EscapeQuotesThenBackslashes(s) ==
    ReplaceAll(ReplaceAll(s, "\"", <<Tok("\\"), Tok("\"")>>), "\\", <<Tok("\\"), Tok("\\")>>)

\* .replace(/\\/g, '\\\\').replace(/"/g, '\\"')
EscapeQuotes(s) ==
    ReplaceAll(ReplaceAll(s, "\\", <<Tok("\\"), Tok("\\")>>), "\"", <<Tok("\\"), Tok("\"")>>)

escapeYamlValue(value) ==
    LET valueWithoutNewlines == Trim(ReplaceNewlines(value))
    IN  IF \E i \in 1..Len(valueWithoutNewlines) :
               valueWithoutNewlines[i][1] \in YAML_SPECIAL_CHARS
        THEN Str("\"") \o EscapeQuotes(valueWithoutNewlines) \o Str("\"")
        ELSE valueWithoutNewlines

----------------------------------------------------------------------------
(* Values of the parsed XML (xml2js, explicitArray: false): absent, a text, *)
(* an object with the text under `_`, an object of attributes (`$`) or with *)
(* a `term` field, or an array of such values.                              *)

XNone == [k |-> "none", v |-> Empty, a |-> << >>]
XStr(text) == [k |-> "str", v |-> text, a |-> << >>]
XObj(text) == [k |-> "obj", v |-> text, a |-> << >>]
XTerm(text) == [k |-> "term", v |-> text, a |-> << >>]
XAttrs(text) == [k |-> "attrs", v |-> text, a |-> << >>]
XArr(xs) == [k |-> "arr", v |-> Empty, a |-> xs]

\* JavaScript truthiness of such a value: absent and '' are falsy
XTruthy(x) == x.k # "none" /\ ~(x.k = "str" /\ x.v = Empty)

\* XmlNormalizer.normalizeValue
normalizeValue(value) ==
    IF ~XTruthy(value) THEN Empty
    ELSE IF value.k = "str" THEN value.v
    ELSE IF value.k = "obj" THEN value.v
    ELSE Empty

XHref(text) == [k |-> "href", v |-> text, a |-> << >>]
XName(text) == [k |-> "name", v |-> text, a |-> << >>]

\* XmlNormalizer.normalizeAtomLink
normalizeAtomLink(link) ==
    IF ~XTruthy(link) THEN Empty
    ELSE LET linkObj == IF link.k = "arr"
                        THEN (IF link.a = << >> THEN XNone ELSE link.a[1])
                        ELSE link
         IN  IF ~XTruthy(linkObj) THEN Empty
             ELSE IF linkObj.k = "attrs" THEN linkObj.v
             ELSE IF linkObj.k = "href" THEN linkObj.v
             ELSE Empty

\* XmlNormalizer.normalizeAtomAuthor
normalizeAtomAuthor(author, feedTitle) ==
    IF ~XTruthy(author) THEN feedTitle
    ELSE LET first == IF author.k = "arr"
                      THEN (IF author.a = << >> THEN XNone ELSE author.a[1])
                      ELSE author
         IN  IF first.k = "name" /\ first.v # Empty THEN first.v ELSE feedTitle

----------------------------------------------------------------------------
(* htmlProcessor.ts: the two conversions are done by libraries (DOMParser, *)
(* Turndown); they are modelled by their effect on the texts of the model: *)
(* markup is dropped or rewritten, other text is kept.                     *)

HtmlTags == {"<b>", "</b>", "<script>", "<img src='", "<img width='9' src='", "'>"}

RECURSIVE DropTags(_)
DropTags(s) ==
    IF s = << >> THEN << >>
    ELSE (IF Head(s)[1] \in HtmlTags THEN << >> ELSE <<Head(s)>>) \o DropTags(Tail(s))

\* text.replace(/\s+/g, ' ')
RECURSIVE CollapseSpace(_)
CollapseSpace(s) ==
    IF s = << >> THEN << >>
    ELSE IF Head(s)[1] \in WhiteSpace
         THEN Str(" ") \o CollapseSpace(TrimStart(Tail(s)))
    ELSE <<Head(s)>> \o CollapseSpace(Tail(s))

Ellipsis == Str("...")

stripHtml(html, maxLength) ==
    IF html = Empty THEN Empty
    ELSE LET text == Trim(CollapseSpace(DropTags(html)))
         IN  IF Len(text) > maxLength THEN SubSeq(text, 1, maxLength) \o Ellipsis
             ELSE text

MarkdownOf(tok) ==
    IF tok[1] \in {"<b>", "</b>"} THEN Str("**")
    ELSE IF tok[1] = "<script>" THEN Empty
    ELSE IF tok[1] \in {"<img src='", "<img width='9' src='"} THEN Str("![](")
    ELSE IF tok[1] = "'>" THEN Str(")")
    ELSE <<tok>>

htmlToMarkdown(html) ==
    IF html = Empty THEN Empty ELSE Concat([i \in 1..Len(html) |-> MarkdownOf(html[i])])

----------------------------------------------------------------------------
(* templateEngine (prepareTemplate, renderTemplate) *)

\* template.replace(/^.*{{image}}.*\n?/gm, ''): `.` stops at "\n" and at "\r",
\* `^` matches after either, and only a "\n" that follows directly is removed
\* with the match
RECURSIVE RemoveImageLines(_, _)
RemoveImageLines(s, line) ==
    IF s = << >>
    THEN (IF Contains(line, "{{image}}") THEN << >> ELSE line)
    ELSE IF Head(s) = Tok("\n")
         THEN (IF Contains(line, "{{image}}") THEN << >> ELSE line \o Str("\n"))
              \o RemoveImageLines(Tail(s), << >>)
    ELSE IF Head(s) = Tok("\r")
         THEN (IF Contains(line, "{{image}}") THEN << >> ELSE line) \o Str("\r")
              \o RemoveImageLines(Tail(s), << >>)
    ELSE RemoveImageLines(Tail(s), Append(line, Head(s)))

prepareTemplate(template, item) ==
    IF item.imageUrl = Empty THEN RemoveImageLines(template, << >>) ELSE template

\* the chain of String.replace calls, in the order of the source
renderTemplate(template, data) ==
    LET r1 == ReplaceAll(template, "{{title}}", data.title)
        r2 == ReplaceAll(r1, "{{link}}", data.link)
        r3 == ReplaceAll(r2, "{{author}}", data.author)
        r4 == ReplaceAll(r3, "{{publishedTime}}", data.publishedTime)
        r5 == ReplaceAll(r4, "{{savedTime}}", data.savedTime)
        r6 == ReplaceAll(r5, "{{image}}", data.image)
        r7 == ReplaceAll(r6, "{{description}}", data.description)
        r8 == ReplaceAll(r7, "{{descriptionShort}}", data.descriptionShort)
        r9 == ReplaceAll(r8, "{{#tags}}", data.tags)
    IN  ReplaceAll(r9, "{{content}}", data.content)

----------------------------------------------------------------------------
(* UpdateFeeds.normalizeCategories / extractCategoryText *)

extractCategoryText(category) ==
    IF category.k = "none" THEN Empty
    ELSE IF category.k = "str" THEN Trim(category.v)
    ELSE IF category.k = "obj" THEN Trim(category.v)
    ELSE IF category.k = "term" THEN Trim(category.v)
    ELSE Empty

\* the texts of the entries with every repeated text dropped
RECURSIVE Distinct(_)
Distinct(texts) ==
    IF texts = << >> THEN << >>
    ELSE LET rest == Distinct(SubSeq(texts, 1, Len(texts) - 1))
             last == texts[Len(texts)]
         IN  IF \E i \in 1..Len(rest) : rest[i] = last THEN rest ELSE Append(rest, last)

normalizeCategoriesDistinct(categoryField) ==
    IF ~XTruthy(categoryField) THEN << >>
    ELSE LET categories == IF categoryField.k = "arr" THEN categoryField.a
                           ELSE <<categoryField>>
             texts == [i \in 1..Len(categories) |-> extractCategoryText(categories[i])]
         IN  Distinct(SelectSeq(texts, LAMBDA c : Len(c) > 0))

normalizeCategories(categoryField) ==
    IF ~XTruthy(categoryField) THEN << >>
    ELSE LET categories == IF categoryField.k = "arr" THEN categoryField.a
                           ELSE <<categoryField>>
             texts == [i \in 1..Len(categories) |-> extractCategoryText(categories[i])]
         IN  SelectSeq(texts, LAMBDA c : Len(c) > 0)

\* categories.map(c => `#${c}`).join(' ')
RECURSIVE JoinTags(_)
JoinTags(cs) ==
    IF cs = << >> THEN Empty
    ELSE Str("#") \o Head(cs) \o (IF Len(cs) > 1 THEN Str(" ") ELSE Empty) \o JoinTags(Tail(cs))

----------------------------------------------------------------------------
(* ImageExtractor.extractFromItem *)

ImageExtensions == {".jpg", ".jpeg", ".png", ".gif", ".webp"}
ImageHosts == {"cloudinary.com", "imgur.com", "googleusercontent.com"}

\* the /i flag of the extension pattern, on the pieces of text of the model
LowerCase(tag) ==
    IF tag = ".PNG" THEN ".png" ELSE IF tag = ".JPG" THEN ".jpg" ELSE tag

\* url.match(/\.(jpg|jpeg|png|gif|webp)(\?|$)/i) !== null || url.includes(...):
\* both look at the whole text of the URL
isImageUrl(url) ==
    \/ \E i \in 1..Len(url) :
          /\ LowerCase(url[i][1]) \in ImageExtensions
          /\ (i = Len(url) \/ url[i + 1] = Tok("?"))
    \/ \E i \in 1..Len(url) : url[i][1] \in ImageHosts

\* a media element: a text, or an object whose `$` carries url (and type)
MediaUrl(m) == IF m.k \in {"str", "attrs"} THEN m.v ELSE Empty

extractFromMediaElements(item) ==
    IF item.mediaContent.k = "none" /\ item.mediaThumbnail.k = "none"
       /\ item.enclosure.k = "none"
    THEN Empty
    ELSE IF XTruthy(item.mediaContent) /\ MediaUrl(item.mediaContent) # Empty
         THEN MediaUrl(item.mediaContent)
    ELSE IF XTruthy(item.mediaThumbnail) /\ MediaUrl(item.mediaThumbnail) # Empty
         THEN MediaUrl(item.mediaThumbnail)
    ELSE IF XTruthy(item.enclosure) /\ MediaUrl(item.enclosure) # Empty
            /\ (\/ isImageUrl(MediaUrl(item.enclosure))
                \/ (item.enclosure.k = "attrs" /\ item.enclosureType # Empty
                    /\ item.enclosureType[1] = Tok("image/")))
         THEN MediaUrl(item.enclosure)
    ELSE Empty

\* /<img.*?src=["'](.*?)["']/.exec(content): the src of the first <img>
RECURSIVE UpToQuote(_)
UpToQuote(s) ==
    IF s = << >> \/ Head(s)[1] \in {"'>", "\n"} THEN << >>
    ELSE <<Head(s)>> \o UpToQuote(Tail(s))

RECURSIVE FirstImgSrc(_)
FirstImgSrc(s) ==
    IF s = << >> THEN Empty
    ELSE IF Head(s)[1] \in {"<img src='", "<img width='9' src='"}
            /\ \E j \in 2..Len(s) : s[j] = Tok("'>")
            /\ UpToQuote(Tail(s)) # Empty
         THEN UpToQuote(Tail(s))
    ELSE FirstImgSrc(Tail(s))

extractFromHtmlContent(item) ==
    LET content ==
            IF item.contentEncoded.k # "none"
            THEN (IF XTruthy(item.contentEncoded) THEN item.contentEncoded.v
                  ELSE IF XTruthy(item.description) THEN item.description.v
                  ELSE Empty)
            ELSE IF item.content.k # "none"
            THEN (IF normalizeValue(item.content) # Empty
                  THEN normalizeValue(item.content)
                  ELSE normalizeValue(item.summary))
            ELSE Empty
    IN  FirstImgSrc(content)

\* the search with the embedded <img> tried before the media elements
extractFromItemImgFirst(item) ==
    IF extractFromHtmlContent(item) # Empty THEN extractFromHtmlContent(item)
    ELSE extractFromMediaElements(item)

extractFromItem(item) ==
    IF extractFromMediaElements(item) # Empty THEN extractFromMediaElements(item)
    ELSE IF extractFromHtmlContent(item) # Empty THEN extractFromHtmlContent(item)
    ELSE Empty

----------------------------------------------------------------------------
(* UpdateFeeds.processRssItem / processAtomItem: the article record built  *)
(* from one parsed item, before the image lookup                           *)

DescriptionMax == 200
ShortMax == 50

\* x || d on a text field of the parsed item
Or(x, d) == IF XTruthy(x) THEN x.v ELSE d

RssItemOfRss(item, feed, nowMs) ==
    [title       |-> Or(item.title, Str("Untitled")),
     description |-> stripHtml(Or(item.description, Empty), DescriptionMax),
     content     |-> Or(item.contentEncoded, Or(item.description, Empty)),
     link        |-> Or(item.link, Empty),
     pubDate     |-> Or(item.pubDate, Or(item.published, ToISOString(nowMs))),
     author      |-> Or(item.author, Or(item.dcCreator, Str(feed.name))),
     categories  |-> normalizeCategories(item.category),
     imageUrl    |-> Empty,
     savedDate   |-> ToISOString(nowMs)]

RssItemOfAtom(item, atomFeedTitle, feed, nowMs) ==
    LET title == normalizeValue(item.title)
        summary == normalizeValue(item.summary)
        content == normalizeValue(item.content)
    IN  [title       |-> IF title # Empty THEN title ELSE Str("Untitled"),
         description |-> stripHtml(summary, DescriptionMax),
         content     |-> IF content # Empty THEN content ELSE summary,
         link        |-> normalizeAtomLink(item.link),
         pubDate     |-> Or(item.published, Or(item.updated, ToISOString(nowMs))),
         author      |-> normalizeAtomAuthor(item.author, normalizeValue(atomFeedTitle)),
         categories  |-> normalizeCategories(item.category),
         imageUrl    |-> Empty,
         savedDate   |-> ToISOString(nowMs)]

----------------------------------------------------------------------------
(* UpdateFeeds.saveRssItem: the file path and the file content *)

ForbiddenChars == {"\\", "/", ":", "*", "?", "\"", "<", ">", "|"}

\* no replacement at all
SanitizeTokNone(tok) == tok

\* fileName.replace(/[\\/:*?"<>|]/g, '-') on one piece of text
SanitizeTok(tok) ==
    IF tok[1] \in ForbiddenChars THEN Tok("-")
    ELSE IF tok[1] = "date" THEN <<"date-", tok[2]>>
    ELSE IF tok[1] = "NaN-NaN-NaN NaN:NaN:NaN" THEN Tok("NaN-NaN-NaN NaN-NaN-NaN")
    ELSE tok

\* the file name template with {{title}} and {{published}} filled in
RenderedFileName(st, rssItem) ==
    ReplaceAll(ReplaceAll(st.fileNameTemplate, "{{title}}", rssItem.title),
               "{{published}}", formatDateTime(NewDate(rssItem.pubDate)))

FileNameOf(st, rssItem) ==
    LET fileName == RenderedFileName(st, rssItem)
    IN  [i \in 1..Len(fileName) |-> SanitizeTok(fileName[i])]

\* normalizePath(`${folderPath}/${fileName}.md`)
FilePath(folderPath, fileName) == <<folderPath, fileName, "md">>

resizeImagesInContent(content) ==
    ReplaceAll(content, "<img src='", Str("<img width='9' src='"))

\* the data saveRssItem hands to renderTemplate
TemplateDataOf(st, rssItem) ==
    LET fullDateTime == formatDateTime(NewDate(rssItem.pubDate))
        fullSavedDateTime == formatDateTime(NewDate(rssItem.savedDate))
        escapedTitle == escapeYamlValue(normalizeValue(XStr(rssItem.title)))
        escapedAuthor == escapeYamlValue(normalizeValue(XStr(rssItem.author)))
        descriptionCleaned == Trim(ReplaceNewlines(rssItem.description))
        descriptionShort ==
            IF Len(descriptionCleaned) > ShortMax
            THEN SubSeq(descriptionCleaned, 1, ShortMax) \o Ellipsis
            ELSE descriptionCleaned
        resized == IF st.imageWidth # "" /\ st.imageWidth # "100%"
                   THEN resizeImagesInContent(rssItem.content)
                   ELSE rssItem.content
    IN  [title            |-> escapedTitle,
         link             |-> rssItem.link,
         author           |-> escapedAuthor,
         publishedTime    |-> fullDateTime,
         savedTime        |-> fullSavedDateTime,
         image            |-> rssItem.imageUrl,
         description      |-> escapeYamlValue(descriptionCleaned),
         descriptionShort |-> escapeYamlValue(descriptionShort),
         tags             |-> JoinTags(rssItem.categories),
         content          |-> htmlToMarkdown(resized)]

FileContentOf(st, rssItem) ==
    renderTemplate(prepareTemplate(st.template, rssItem), TemplateDataOf(st, rssItem))

----------------------------------------------------------------------------
(* UpdateFeeds.deleteOldFiles: the cutoff and the decision for one file *)

MsPerMinute == 60000
MsPerDay == 86400000

CutoffDate(st, nowMs) ==
    IF st.autoDeleteTimeUnit = "minutes"
    THEN nowMs - st.autoDeleteDays * MsPerMinute
    ELSE nowMs - st.autoDeleteDays * MsPerDay

\* the texts that contain "saved: " and "publish_date: "
SavedKeys == {"saved: ", "last_saved: "}
PublishKeys == {"publish_date: "}

\* the rest of the line: (.*?)$ with the m flag
RECURSIVE RestOfLine(_)
RestOfLine(s) ==
    IF s = << >> \/ Head(s)[1] \in {"\n", "\r"} THEN << >>
    ELSE <<Head(s)>> \o RestOfLine(Tail(s))

\* fileContent.match(/key(.*?)$/m): the first occurrence of the key
RECURSIVE Match(_, _)
Match(content, keys) ==
    IF content = << >> THEN [found |-> FALSE, value |-> Empty]
    ELSE IF Head(content)[1] \in keys
         THEN [found |-> TRUE, value |-> RestOfLine(Tail(content))]
    ELSE Match(Tail(content), keys)

ShouldDelete(st, fileContent, ctime, cutoffDate) ==
    IF st.autoDeleteBasedOn = "publish_date"
    THEN LET publishedMatch == Match(fileContent, PublishKeys)
             publishedTime == NewDate(publishedMatch.value)
         IN  /\ publishedMatch.found /\ publishedMatch.value # Empty
             /\ Truthy(publishedTime) /\ publishedTime.ms < cutoffDate
    ELSE LET savedMatch == Match(fileContent, SavedKeys)
             savedTime == NewDate(savedMatch.value)
         IN  IF savedMatch.found /\ savedMatch.value # Empty
             THEN Truthy(savedTime) /\ savedTime.ms < cutoffDate
             ELSE ctime < cutoffDate

----------------------------------------------------------------------------
(* Settings *)

DefaultTemplate ==
    <<Tok("---"), Tok("\n"),
      Tok("title: "), Tok("{{title}}"), Tok("\n"),
      Tok("link: "), Tok("{{link}}"), Tok("\n"),
      Tok("author: "), Tok("{{author}}"), Tok("\n"),
      Tok("publish_date: "), Tok("{{publishedTime}}"), Tok("\n"),
      Tok("saved_date: "), Tok("{{savedTime}}"), Tok("\n"),
      Tok("image: "), Tok("{{image}}"), Tok("\n"),
      Tok("tags: "), Tok("{{#tags}}"), Tok("\n"),
      Tok("---"), Tok("\n"), Tok("\n"),
      Tok("![image]("), Tok("{{image}}"), Tok(")"), Tok("\n"), Tok("\n"),
      Tok("{{content}}")>>

Feed(name, folder, enabled) ==
    [url |-> name, name |-> name, folder |-> folder, enabled |-> enabled]

DEFAULT_SETTINGS ==
    [feeds              |-> << >>,
     folderPath         |-> "RSS",
     template           |-> DefaultTemplate,
     fileNameTemplate   |-> Str("{{title}}"),
     updateInterval     |-> 60,
     lastUpdateTime     |-> 0,
     includeImages      |-> TRUE,
     fetchImageFromLink |-> FALSE,
     imageWidth         |-> "50%",
     autoDeleteEnabled  |-> FALSE,
     autoDeleteDays     |-> 30,
     autoDeleteTimeUnit |-> "days",
     autoDeleteBasedOn  |-> "saved"]

----------------------------------------------------------------------------
(* Parsed feed items *)

UndefinedItem ==
    [undefined |-> TRUE,
     title |-> XNone, description |-> XNone, contentEncoded |-> XNone,
     summary |-> XNone, content |-> XNone, link |-> XNone, pubDate |-> XNone,
     published |-> XNone, updated |-> XNone, author |-> XNone, dcCreator |-> XNone,
     category |-> XNone, mediaContent |-> XNone, mediaThumbnail |-> XNone,
     enclosure |-> XNone, enclosureType |-> Empty]

\* an RSS <item> with a title, a publication date, a link and a description
RssEntry(title, pubDate, link, description) ==
    [UndefinedItem EXCEPT !.undefined = FALSE, !.title = title, !.pubDate = pubDate,
                          !.link = link, !.description = description]

\* an Atom <entry> with a title, a publication date, a link and a summary
AtomEntry(title, published, link, summary) ==
    [UndefinedItem EXCEPT !.undefined = FALSE, !.title = title, !.published = published,
                          !.link = link, !.summary = summary]

----------------------------------------------------------------------------
(* Bounds of the model *)

MaxRuns == 2        \* calls of updateFeeds in one behaviour
MaxTicks == 2       \* advances of the clock in one behaviour
MaxFaults == 1      \* storage operations that fail for a reason outside the plugin

Runs == 1..MaxRuns

T0 == 200000000     \* Date.now() at the start of a behaviour
TickMs == 60000     \* one advance of the clock
OldTime == 5000000  \* a publication time long before T0

----------------------------------------------------------------------------
(* The vault (the host's file system abstraction).  A folder path is a     *)
(* tuple of names, a file path is <<folder path, base name, extension>>.   *)

\* this.vault.getAbstractFileByPath(path), for a file path and for a folder path
\* a lookup that finds no file
ExistsNever(fs, path) == FALSE
Exists(fs, path) == path \in DOMAIN fs
FolderExists(dirs, path) == path \in dirs

\* folder.children.filter(file => file instanceof TFile && file.extension === 'md')
RECURSIVE SeqOfSet(_)
SeqOfSet(S) ==
    IF S = {} THEN << >>
    ELSE LET x == CHOOSE y \in S : TRUE IN <<x>> \o SeqOfSet(S \ {x})

\* every file right under the folder, whatever its extension
ChildrenAnyExtension(fs, folderPath) == SeqOfSet({p \in DOMAIN fs : p[1] = folderPath})

Children(fs, folderPath) ==
    SeqOfSet({p \in DOMAIN fs : p[1] = folderPath /\ p[3] = "md"})

Put(fs, path, file) == [p \in DOMAIN fs \cup {path} |-> IF p = path THEN file ELSE fs[p]]
Remove(fs, path) == [p \in DOMAIN fs \ {path} |-> fs[p]]

\* `${baseFolderPath}/${feed.folder || feed.name}`
FeedFolderPath(baseFolderPath, feed) ==
    <<baseFolderPath, IF feed.folder # "" THEN feed.folder ELSE feed.name>>

----------------------------------------------------------------------------
(* One call of LocalRssPlugin.updateFeeds: an async function.  pc is the   *)
(* await it is suspended at; the code between two awaits runs as one step. *)
(* An await on a promise that is already settled (a skipped item) resumes  *)
(* in the same task, so it is no step of its own.                          *)

NoItem == [title |-> Empty, description |-> Empty, content |-> Empty, link |-> Empty,
           pubDate |-> Empty, author |-> Empty, categories |-> << >>,
           imageUrl |-> Empty, savedDate |-> Empty]

IdleRun ==
    [pc |-> "idle", folderPath |-> "", feeds |-> << >>, feedIdx |-> 0,
     format |-> "", items |-> << >>, itemIdx |-> 0, rssItem |-> NoItem,
     feedTitle |-> XNone, fileName |-> << >>, fileContent |-> Empty, existed |-> FALSE,
     sweepFiles |-> << >>, sweepIdx |-> 0, cutoffDate |-> 0,
     log |-> << >>, created |-> {}, swept |-> {}, solo |-> FALSE]

InFlight(rr) == rr.pc \notin {"idle", "done", "aborted"}

\* new Notice(...) and the operations the claims observe, in order
Emit(rr, kind, name) == [rr EXCEPT !.log = Append(@, <<kind, name>>)]

CurFeed(rr) == rr.feeds[rr.feedIdx]
CurFolder(rr) == FeedFolderPath(rr.folderPath, CurFeed(rr))

\* execute, after the loop over the feeds: the completion notice; updateFeeds
\* then stores lastUpdateTime and awaits saveSettings
Finish(rr) == [Emit(rr, "rssFeedUpdateCompleted", "") EXCEPT !.pc = "save"]

\* the head of the loop over the enabled feeds: updateFeed awaits the fetch
NextFeed(rr) ==
    LET next == [rr EXCEPT !.feedIdx = @ + 1, !.items = << >>, !.itemIdx = 0,
                           !.format = "", !.feedTitle = XNone, !.rssItem = NoItem,
                           !.fileName = << >>, !.existed = FALSE,
                           !.fileContent = Empty, !.sweepFiles = << >>,
                           !.sweepIdx = 0, !.cutoffDate = 0]
    IN  IF next.feedIdx > Len(next.feeds) THEN Finish(next)
        ELSE [Emit(next, "fetch", CurFeed(next).name) EXCEPT !.pc = "fetch"]

\* a failure that ends the loop over the feeds instead of going on with the next
FailFeedStop(rr) == Finish(Emit(rr, "errorUpdatingFeed", CurFeed(rr).name))

\* the catch block of execute
FailFeed(rr) == NextFeed(Emit(rr, "errorUpdatingFeed", CurFeed(rr).name))

\* updateFeed returned: the success notice
SucceedFeed(rr) == NextFeed(Emit(rr, "updatedFeed", CurFeed(rr).name))

\* deleteOldFiles up to its first await
SweepStart(rr, st, fs, dirs, t) ==
    LET folderPath == CurFolder(rr)
        swept == Emit(rr, "sweep", CurFeed(rr).name)
        list == Children(fs, folderPath)
    IN  IF ~FolderExists(dirs, folderPath) \/ list = << >> THEN SucceedFeed(swept)
        ELSE [swept EXCEPT !.pc = "sweepRead", !.sweepFiles = list, !.sweepIdx = 1,
                           !.cutoffDate = CutoffDate(st, t)]

\* the loop over the files of deleteOldFiles
SweepNext(rr) ==
    IF rr.sweepIdx >= Len(rr.sweepFiles) THEN SucceedFeed(rr)
    ELSE [rr EXCEPT !.pc = "sweepRead", !.sweepIdx = @ + 1]

\* a failure on one file that ends the sweep of the folder
SweepFileFailedEndsSweep(rr) == SucceedFeed(rr)

\* the catch block inside the loop of deleteOldFiles: the error is logged to
\* the console and the loop goes on
SweepFileFailed(rr) == SweepNext(rr)

\* updateFeed after the loop over the items
EndOfItems(rr, st, fs, dirs, t) ==
    IF rr.format = "rss"
    THEN (IF st.autoDeleteEnabled THEN SweepStart(rr, st, fs, dirs, t)
          ELSE SucceedFeed(rr))
    ELSE SucceedFeed(rr)

\* the page lookup made for every article without an image that has a link
NeedsImageFetchAnyway(st, rssItem) == rssItem.imageUrl = Empty /\ rssItem.link # Empty

NeedsImageFetch(st, rssItem) ==
    st.includeImages /\ rssItem.imageUrl = Empty /\ st.fetchImageFromLink
    /\ rssItem.link # Empty

RECURSIVE ItemLoop(_, _, _, _, _)
RECURSIVE saveRssItem(_, _, _, _, _)

\* saveRssItem without its existence check: it always goes on to vault.create
saveRssItemNoCheck(rr, st, fs, dirs, t) ==
    LET fileName == FilePath(CurFolder(rr), FileNameOf(st, rr.rssItem))
    IN  [Emit(rr, "create", CurFeed(rr).name) EXCEPT
             !.pc = "create", !.fileName = fileName,
             !.fileContent = FileContentOf(st, rr.rssItem),
             !.existed = fileName \in DOMAIN fs]

\* saveRssItem up to its await of vault.create
saveRssItem(rr, st, fs, dirs, t) ==
    LET fileName == FilePath(CurFolder(rr), FileNameOf(st, rr.rssItem))
    IN  IF Exists(fs, fileName)
        THEN ItemLoop([Emit(rr, "skip", CurFeed(rr).name) EXCEPT !.itemIdx = @ + 1],
                      st, fs, dirs, t)
        ELSE [Emit(rr, "create", CurFeed(rr).name) EXCEPT
                  !.pc = "create", !.fileName = fileName,
                  !.fileContent = FileContentOf(st, rr.rssItem),
                  !.existed = fileName \in DOMAIN fs]

\* the loop over the items of updateFeed, and processRssItem / processAtomItem
\* up to their first await
ItemLoop(rr, st, fs, dirs, t) ==
    IF rr.itemIdx > Len(rr.items) THEN EndOfItems(rr, st, fs, dirs, t)
    ELSE LET item == rr.items[rr.itemIdx]
             feed == CurFeed(rr)
             base == IF rr.format = "rss" THEN RssItemOfRss(item, feed, t)
                     ELSE RssItemOfAtom(item, rr.feedTitle, feed, t)
             rssItem == IF st.includeImages
                        THEN [base EXCEPT !.imageUrl = extractFromItem(item)]
                        ELSE base
             withItem == [rr EXCEPT !.rssItem = rssItem]
         IN  IF item.undefined THEN FailFeed(rr)
             ELSE IF NeedsImageFetch(st, rssItem)
                  THEN [Emit(withItem, "fetchImage", feed.name) EXCEPT !.pc = "imageFetch"]
             ELSE saveRssItem(withItem, st, fs, dirs, t)

\* updateFeed after the parse and the feed folder: RSS, Atom or unsupported
Branch(rr, body, st, fs, dirs, t) ==
    LET list == IF body.items.k = "arr" THEN body.items.list
                ELSE IF body.items.k = "one" THEN <<body.items.list[1]>>
                ELSE <<UndefinedItem>>
        loop == [rr EXCEPT !.format = body.format, !.feedTitle = body.title,
                           !.items = list, !.itemIdx = 1]
    IN  IF body.format = "rss" THEN ItemLoop(loop, st, fs, dirs, t)
        ELSE IF body.format = "atom" /\ body.items.k # "none"
             THEN ItemLoop(loop, st, fs, dirs, t)
        ELSE SucceedFeed(Emit(rr, "unsupportedFeedFormat", CurFeed(rr).name))

\* the loop of execute taking the enabled feeds from the last to the first
EnterLoopReversed(rr, st) ==
    LET enabled == SelectSeq(st.feeds, LAMBDA f : f.enabled)
    IN  NextFeed([rr EXCEPT !.feeds = [i \in 1..Len(enabled) |->
                                          enabled[Len(enabled) + 1 - i]],
                            !.feedIdx = 0])

\* execute at the head of its loop: this.settings.feeds.filter(f => f.enabled)
EnterLoop(rr, st) ==
    NextFeed([rr EXCEPT !.feeds = SelectSeq(st.feeds, LAMBDA f : f.enabled),
                        !.feedIdx = 0])

----------------------------------------------------------------------------
(* Actions *)

\* a storage operation of the host succeeds, or fails for a reason outside
\* the plugin (at most MaxFaults times in a behaviour)
Outcomes == {"ok"} \cup (IF faults < MaxFaults THEN {"fault"} ELSE {})
Count(o) == faults' = IF o = "fault" THEN faults + 1 ELSE faults

\* run r moves to rr; updateFeeds stores lastUpdateTime when execute has returned
Step(r, rr) ==
    /\ run' = [run EXCEPT ![r] = rr]
    /\ settings' = IF rr.pc = "save" /\ run[r].pc # "save"
                   THEN [settings EXCEPT !.lastUpdateTime = now]
                   ELSE settings

\* LocalRssPlugin before onload; updateIntervalId 0 stands for null
NewPlugin == [loaded |-> FALSE, updateIntervalId |-> 0, nextId |-> 1, armed |-> {},
              saving |-> 0, savingDays |-> 0, changes |-> 0]

\* window.clearInterval(id)
ClearInterval(armed, id) == {tm \in armed : tm.id # id}

\* LocalRssPlugin.startUpdateInterval; the period of a timer is in minutes
startUpdateInterval(pl, st) ==
    LET cleared == IF pl.updateIntervalId # 0
                   THEN ClearInterval(pl.armed, pl.updateIntervalId)
                   ELSE pl.armed
    IN  IF st.updateInterval > 0
        THEN [pl EXCEPT !.armed = cleared \cup {[id |-> pl.nextId,
                                                 period |-> st.updateInterval]},
                        !.updateIntervalId = pl.nextId,
                        !.nextId = @ + 1]
        ELSE [pl EXCEPT !.armed = cleared]

\* the plugin once onload has run with the settings st
Loaded(st) == startUpdateInterval([NewPlugin EXCEPT !.loaded = TRUE], st)

\* LocalRssPlugin.updateFeeds, and UpdateFeeds.execute up to its first await.
\* Nothing in it looks at the runs that are in flight.
updateFeeds(r) ==
    /\ started < MaxRuns
    /\ r = started + 1
    /\ started' = r
    /\ LET rr0 == Emit([IdleRun EXCEPT !.folderPath = settings.folderPath,
                                        !.solo = \A q \in Runs : ~InFlight(run[q])],
                       "updatingRssFeeds", "")
           rr == IF FolderExists(folders, <<settings.folderPath>>) THEN EnterLoop(rr0, settings)
                 ELSE [rr0 EXCEPT !.pc = "rootCreate"]
       IN  /\ run' = [q \in Runs |->
                        IF q = r THEN rr
                        ELSE IF InFlight(run[q]) THEN [run[q] EXCEPT !.solo = FALSE]
                        ELSE run[q]]
           /\ settings' = IF rr.pc = "save"
                          THEN [settings EXCEPT !.lastUpdateTime = now]
                          ELSE settings
    /\ UNCHANGED <<plugin, web, folders, files, now, faults, tpl, swp>>

\* the four ways the plugin calls updateFeeds
RibbonClick == \E r \in Runs : updateFeeds(r)
CommandCallback == \E r \in Runs : updateFeeds(r)
UpdateNowButton == \E r \in Runs : updateFeeds(r)
TimerTick == plugin.armed # {} /\ \E r \in Runs : updateFeeds(r)

\* await this.vault.createFolder(folderPath) in execute: outside the try block
RootCreateDone(r) ==
    /\ run[r].pc = "rootCreate"
    /\ \E o \in Outcomes :
          /\ Count(o)
          /\ (<<run[r].folderPath>> \in folders => o = "ok")
          /\ IF o = "ok" /\ <<run[r].folderPath>> \notin folders
             THEN /\ folders' = folders \cup {<<run[r].folderPath>>}
                  /\ Step(r, EnterLoop(run[r], settings))
             ELSE /\ folders' = folders
                  /\ Step(r, [Emit(run[r], "uncaught", "") EXCEPT !.pc = "aborted"])
    /\ UNCHANGED <<plugin, web, files, now, started, tpl, swp>>

\* FeedFetcher.fetch: await requestUrl(url), then the status check
FetchDone(r) ==
    /\ run[r].pc = "fetch"
    /\ LET response == web[CurFeed(run[r]).name]
       IN  Step(r, IF response.status # 200 THEN FailFeed(run[r])
                   ELSE [run[r] EXCEPT !.pc = "parse"])
    /\ UNCHANGED <<plugin, web, folders, files, now, started, faults, tpl, swp>>

\* await parser.parseStringPromise(xml), then the feed folder
ParseDone(r) ==
    /\ run[r].pc = "parse"
    /\ LET body == web[CurFeed(run[r]).name].body
       IN  Step(r, IF body.format = "malformed" THEN FailFeed(run[r])
                   ELSE IF FolderExists(folders, CurFolder(run[r]))
                        THEN Branch(run[r], body, settings, files, folders, now)
                   ELSE [run[r] EXCEPT !.pc = "feedFolderCreate"])
    /\ UNCHANGED <<plugin, web, folders, files, now, started, faults, tpl, swp>>

\* await this.vault.createFolder(feedFolderPath)
FeedFolderCreateDone(r) ==
    /\ run[r].pc = "feedFolderCreate"
    /\ \E o \in Outcomes :
          /\ Count(o)
          /\ (CurFolder(run[r]) \in folders => o = "ok")
          /\ IF o = "ok" /\ CurFolder(run[r]) \notin folders
             THEN /\ folders' = folders \cup {CurFolder(run[r])}
                  /\ Step(r, Branch(run[r], web[CurFeed(run[r]).name].body,
                                    settings, files, folders', now))
             ELSE /\ folders' = folders
                  /\ Step(r, FailFeed(run[r]))
    /\ UNCHANGED <<plugin, web, files, now, started, tpl, swp>>

\* a promise that rejects, in place of the text it would resolve to
Thrown == <<<<"throw", 0>>>>

\* fetchHtml without its catch block: the error of a request that throws
\* (status 0) gets out
fetchHtmlNoCatch(page) ==
    IF page.status = 0 THEN Thrown ELSE IF page.status # 200 THEN Empty ELSE page.text

\* FeedFetcher.fetchHtml: the text of the page, '' for a status other than
\* 200 and for a request that throws (status 0)
fetchHtml(page) == IF page.status # 200 THEN Empty ELSE page.text

\* regex.exec(html) for a <meta> tag of the page: the text between the opening
\* piece and the closing piece that follows it ('' when there is no match)
RECURSIVE MetaContent(_, _, _)
MetaContent(html, open, close) ==
    IF Len(html) < 3 THEN Empty
    ELSE IF html[1] = Tok(open) /\ html[3] = Tok(close) THEN <<html[2]>>
    ELSE MetaContent(Tail(html), open, close)

\* new URL(url).origin; a text that is no absolute URL makes new URL throw
IsAbsoluteUrl(url) == url # Empty /\ url[1][1] \in {"http://x/a", "http://x/c"}
UrlOrigin(url) == Str("http://x")

\* ImageExtractor.fetchFromUrl
fetchFromUrl(url, page) ==
    LET html == fetchHtml(page)
        og1 == MetaContent(html, "<meta property='og:image' content='", "'")
        og2 == MetaContent(html, "<meta content='", "' property='og:image'")
        tw1 == MetaContent(html, "<meta name='twitter:image' content='", "'")
        tw2 == MetaContent(html, "<meta content='", "' name='twitter:image'")
        imageUrl == IF og1 # Empty THEN og1 ELSE IF og2 # Empty THEN og2
                    ELSE IF tw1 # Empty THEN tw1 ELSE tw2
    IN  IF html = Thrown THEN Thrown
        ELSE IF html = Empty THEN Empty
        ELSE IF imageUrl = Empty THEN Empty
        ELSE IF imageUrl[1][1] = "/og.png"
             THEN (IF IsAbsoluteUrl(url) THEN UrlOrigin(url) \o imageUrl ELSE Empty)
        ELSE imageUrl

\* await this.imageExtractor.fetchFromUrl(rssItem.link), then saveRssItem
ImageFetchDone(r) ==
    /\ run[r].pc = "imageFetch"
    /\ \E page \in web["pages"] :
          LET imageUrl == fetchFromUrl(run[r].rssItem.link, page)
          IN  Step(r, IF imageUrl = Thrown THEN FailFeed(run[r])
                      ELSE saveRssItem([run[r] EXCEPT !.rssItem.imageUrl = imageUrl],
                                       settings, files, folders, now))
    /\ UNCHANGED <<plugin, web, folders, files, now, started, faults, tpl, swp>>

\* await this.vault.create(fileName, fileContent): the host creates the file,
\* or throws because a file exists at the path, or fails
CreateDone(r) ==
    /\ run[r].pc = "create"
    /\ \E o \in Outcomes :
          /\ Count(o)
          /\ (run[r].fileName \in DOMAIN files => o = "ok")
          /\ IF run[r].fileName \in DOMAIN files
             THEN /\ files' = files
                  /\ Step(r, FailFeed(Emit(run[r], "fileExistsError", CurFeed(run[r]).name)))
             ELSE IF o = "fault"
             THEN /\ files' = files
                  /\ Step(r, FailFeed(run[r]))
             ELSE /\ files' = Put(files, run[r].fileName,
                                  [content |-> run[r].fileContent, ctime |-> now])
                  /\ Step(r, ItemLoop([run[r] EXCEPT !.itemIdx = @ + 1,
                                                     !.created = @ \cup {run[r].fileName}],
                                      settings, files', folders, now))
    /\ UNCHANGED <<plugin, web, folders, now, started, tpl, swp>>

\* await this.vault.read(file) in deleteOldFiles, then the decision
SweepReadDone(r) ==
    /\ run[r].pc = "sweepRead"
    /\ \E o \in Outcomes :
          /\ Count(o)
          /\ (run[r].sweepFiles[run[r].sweepIdx] \notin DOMAIN files => o = "ok")
          /\ LET file == run[r].sweepFiles[run[r].sweepIdx]
             IN  Step(r, IF o = "fault" \/ file \notin DOMAIN files
                         THEN SweepFileFailed(run[r])
                         ELSE IF ShouldDelete(settings, files[file].content,
                                              files[file].ctime, run[r].cutoffDate)
                              THEN [run[r] EXCEPT !.pc = "sweepDelete"]
                         ELSE SweepNext(run[r]))
    /\ UNCHANGED <<plugin, web, folders, files, now, started, tpl, swp>>

\* await this.vault.delete(file) in deleteOldFiles
SweepDeleteDone(r) ==
    /\ run[r].pc = "sweepDelete"
    /\ \E o \in Outcomes :
          /\ Count(o)
          /\ (run[r].sweepFiles[run[r].sweepIdx] \notin DOMAIN files => o = "ok")
          /\ LET file == run[r].sweepFiles[run[r].sweepIdx]
             IN  IF o = "fault" \/ file \notin DOMAIN files
                 THEN /\ files' = files
                      /\ Step(r, SweepFileFailed(run[r]))
                 ELSE /\ files' = Remove(files, file)
                      /\ Step(r, SweepNext([run[r] EXCEPT !.swept = @ \cup {file}]))
    /\ UNCHANGED <<plugin, web, folders, now, started, tpl, swp>>

\* await this.saveSettings() at the end of updateFeeds
SaveDone(r) ==
    /\ run[r].pc = "save"
    /\ Step(r, [run[r] EXCEPT !.pc = "done"])
    /\ UNCHANGED <<plugin, web, folders, files, now, started, faults, tpl, swp>>

\* time passes
Tick ==
    /\ now < T0 + MaxTicks * TickMs
    /\ now' = now + TickMs
    /\ UNCHANGED <<plugin, settings, web, folders, files, started, faults, run, tpl, swp>>

----------------------------------------------------------------------------
(* The inputs of the model: feed servers, settings, and vault contents *)

ItemOld ==
    RssEntry(XStr(Str("a")), XStr(ToISOString(OldTime)), XStr(Str("http://x/a")),
             XStr(<<Tok("<b>"), Tok("d"), Tok("</b>")>>))
ItemUndated == RssEntry(XStr(Str("b")), XNone, XNone, XNone)
ItemColon == RssEntry(XStr(<<Tok("a"), Tok(":")>>), XStr(ToISOString(T0)), XNone, XNone)
ItemSlash == RssEntry(XStr(<<Tok("a"), Tok("/")>>), XStr(ToISOString(T0)), XNone, XNone)
EntryOld ==
    AtomEntry(XObj(Str("c")), XStr(ToISOString(OldTime)),
              XArr(<<XAttrs(Str("http://x/c"))>>), XStr(Str("s")))

\* channel.item / feed.entry: absent, one object, or an array
None == [k |-> "none", list |-> << >>]
One(item) == [k |-> "one", list |-> <<item>>]
Many(items) == [k |-> "arr", list |-> items]

NoBody == [format |-> "malformed", title |-> XNone, items |-> None]
Body(format, items) == [format |-> format, title |-> XStr(Str("T")), items |-> items]

Http500 == [status |-> 500, body |-> NoBody]
NetworkError == [status |-> 0, body |-> NoBody]
Malformed == [status |-> 200, body |-> NoBody]
Answer(body) == [status |-> 200, body |-> body]

FeedNames == {"F1", "F2", "F3"}
\* the answers an article page may give to fetchHtml
Page(status, text) == [status |-> status, text |-> text]
OgPage == Page(200, <<Tok("<html>"), Tok("<meta property='og:image' content='"),
                      Tok("og.png"), Tok("'"), Tok(">")>>)
DefaultPages == {Page(500, Empty), OgPage}

\* the answers of the servers: one per feed, and those of the article pages
World(r1, r3) ==
    [n \in FeedNames \cup {"pages"} |->
        IF n = "F1" THEN r1 ELSE IF n = "F3" THEN r3
        ELSE IF n = "pages" THEN DefaultPages ELSE Http500]

Worlds ==
    {World(Http500, Answer(Body("rss", Many(<<ItemOld, ItemUndated>>)))),
     World(Answer(Body("rss", Many(<<ItemColon, ItemSlash>>))),
           Answer(Body("atom", One(EntryOld)))),
     World(NetworkError, Answer(Body("rss", None))),
     World(Malformed, Answer(Body("other", None))),
     World(Answer(Body("rss", One(ItemOld))), Answer(Body("atom", None)))}

ModelFeeds == <<Feed("F1", "", TRUE), Feed("F2", "", FALSE), Feed("F3", "news", TRUE)>>

BaseSettings == [DEFAULT_SETTINGS EXCEPT !.feeds = ModelFeeds]

SettingsChoices ==
    {BaseSettings,
     [BaseSettings EXCEPT !.autoDeleteEnabled = TRUE, !.autoDeleteDays = 1,
                          !.autoDeleteBasedOn = "publish_date"],
     [BaseSettings EXCEPT !.autoDeleteEnabled = TRUE, !.autoDeleteDays = 1,
                          !.autoDeleteTimeUnit = "minutes"],
     [BaseSettings EXCEPT !.fileNameTemplate =
                              <<Tok("{{published}}"), Tok(" "), Tok("{{title}}")>>,
                          !.updateInterval = 0],
     [BaseSettings EXCEPT !.fetchImageFromLink = TRUE, !.imageWidth = "100%"]}

\* a note the user keeps in a feed folder
UserNote(text, ctime) == [content |-> text, ctime |-> ctime]

EmptyVault == [folders |-> {}, files |-> << >>]
\* a vault in use: a note of the user in the folder of F1, beside it a picture
\* and a sub-folder with an old note, and a saved article in the folder of F3
NoteInF1 == <<<<"RSS", "F1">>, <<Tok("a"), Tok("-")>>, "md">>
PictureInF1 == <<<<"RSS", "F1">>, Str("pic"), "png">>
NoteInSubFolder == <<<<"RSS", "F1", "sub">>, Str("old"), "md">>
ArticleInNews == <<<<"RSS", "news">>, Str("a"), "md">>

UsedVault ==
    [folders |-> {<<"RSS">>, <<"RSS", "F1">>, <<"RSS", "F1", "sub">>, <<"RSS", "news">>},
     files |->
        [p \in {NoteInF1, PictureInF1, NoteInSubFolder, ArticleInNews} |->
            IF p = ArticleInNews
            THEN UserNote(<<Tok("saved: "), <<"date", OldTime \div 1000>>, Tok("\n"),
                            Tok("kept")>>, T0)
            ELSE IF p = NoteInF1 THEN UserNote(<<Tok("my note")>>, OldTime)
            ELSE UserNote(<<Tok("publish_date: "), <<"date", OldTime \div 1000>>>>,
                          OldTime)]]

Vaults == {EmptyVault, UsedVault}

TplOff == [phase |-> "off", rssItem |-> NoItem, out |-> Empty]
SwpOff == [phase |-> "off", content |-> Empty, ctime |-> 0, deleted |-> FALSE]

Init ==
    /\ settings \in SettingsChoices
    /\ web \in Worlds
    /\ \E v \in Vaults : folders = v.folders /\ files = v.files
    /\ now = T0
    /\ started = 0
    /\ faults = 0
    /\ run = [r \in Runs |-> IdleRun]
    /\ tpl = TplOff
    /\ swp = SwpOff
    /\ plugin = Loaded(settings)

Next ==
    \/ RibbonClick
    \/ CommandCallback
    \/ UpdateNowButton
    \/ TimerTick
    \/ \E r \in Runs : RootCreateDone(r)
    \/ \E r \in Runs : FetchDone(r)
    \/ \E r \in Runs : ParseDone(r)
    \/ \E r \in Runs : FeedFolderCreateDone(r)
    \/ \E r \in Runs : ImageFetchDone(r)
    \/ \E r \in Runs : CreateDone(r)
    \/ \E r \in Runs : SweepReadDone(r)
    \/ \E r \in Runs : SweepDeleteDone(r)
    \/ \E r \in Runs : SaveDone(r)
    \/ Tick

Spec == Init /\ [][Next]_vars

----------------------------------------------------------------------------
(* Rendering one article on its own: saveRssItem from the template on      *)

MaxTitleLen == 2    \* longest title of the rendering inputs, in pieces of text

TitlePieces == {Tok("a"), Tok(","), Tok("{{link}}"), Tok("{{content}}")}
Titles == UNION {[1..n -> TitlePieces] : n \in 1..MaxTitleLen}
Links == {Empty, Str("http://x/a"), Str("{{author}}")}
Contents == {Str("text"), <<Tok("<b>"), Tok("{{title}}"), Tok("</b>")>>}
ImageUrls == {Empty, Str("pic.png")}
Templates == {DefaultTemplate,
              <<Tok("{{content}}"), Tok("\n"), Tok("{{title}}"), Tok(" "), Tok("{{link}}"),
                Tok("\n"), Tok("{{unknown}}")>>,
              <<Tok("title: "), Tok("{{title}}"), Tok("\r"), Tok("\n"),
                Tok("image: "), Tok("{{image}}"), Tok("\r"), Tok("\n"),
                Tok("{{content}}"), Tok("\n"), Tok("![image]("), Tok("{{image}}"), Tok(")")>>}

RenderInputs ==
    {[NoItem EXCEPT !.title = t, !.link = l, !.content = c, !.imageUrl = i,
                    !.author = Str("F1"), !.pubDate = ToISOString(OldTime),
                    !.savedDate = ToISOString(T0)] :
        t \in Titles, l \in Links, c \in Contents, i \in ImageUrls}

InitTemplate ==
    /\ settings \in {[BaseSettings EXCEPT !.template = t] : t \in Templates}
    /\ tpl \in {[phase |-> "input", rssItem |-> i, out |-> Empty] : i \in RenderInputs}
    /\ web = World(Http500, Http500)
    /\ folders = {} /\ files = << >>
    /\ now = T0 /\ started = 0 /\ faults = 0
    /\ run = [r \in Runs |-> IdleRun]
    /\ swp = SwpOff
    /\ plugin = Loaded(settings)

\* saveRssItem, lines 316-349: the file content of the article
Render ==
    /\ tpl.phase = "input"
    /\ tpl' = [tpl EXCEPT !.phase = "done", !.out = FileContentOf(settings, tpl.rssItem)]
    /\ UNCHANGED <<plugin, settings, web, folders, files, now, started, faults, run, swp>>

SpecTemplate == InitTemplate /\ [][Render]_vars

----------------------------------------------------------------------------
(* The decision of the sweep for one file on its own *)

MaxDays == 2        \* largest autoDeleteDays of the sweep inputs

SweepSettings ==
    {[BaseSettings EXCEPT !.autoDeleteEnabled = TRUE, !.autoDeleteDays = d,
                          !.autoDeleteTimeUnit = u, !.autoDeleteBasedOn = b] :
        d \in 1..MaxDays, u \in {"minutes", "days", "hours"},
        b \in {"saved", "publish_date"}}

\* the date values a front-matter line may carry, around the cutoff c
DateValues(c) ==
    {Empty, Str("yesterday"),
     << <<"date", 0>> >>,
     << <<"date", (c \div 1000) - 1>> >>,
     << <<"date", c \div 1000>> >>,
     << <<"date", (c \div 1000) + 1>> >>}

FrontMatter(key, value) ==
    <<Tok("---"), Tok("\n"), Tok("title: "), Tok("a"), Tok("\n")>>
    \o (IF key = "" THEN Empty ELSE Str(key) \o value \o Str("\n"))
    \o <<Tok("---"), Tok("\n"), Tok("text")>>

SweepContents(c) ==
    {FrontMatter(k, v) : k \in {"", "saved: ", "publish_date: ", "saved_date: "},
                         v \in DateValues(c)}

InitSweep ==
    /\ settings \in SweepSettings
    /\ now = T0
    /\ swp \in {[phase |-> "read", content |-> x, ctime |-> ct, deleted |-> FALSE] :
                  x \in SweepContents(CutoffDate(settings, T0)),
                  ct \in {CutoffDate(settings, T0) - 1, CutoffDate(settings, T0),
                          CutoffDate(settings, T0) + 1}}
    /\ web = World(Http500, Http500)
    /\ folders = {} /\ files = << >>
    /\ started = 0 /\ faults = 0
    /\ run = [r \in Runs |-> IdleRun]
    /\ tpl = TplOff
    /\ plugin = Loaded(settings)

\* deleteOldFiles, the body of its loop for one file that was read
SweepFile ==
    /\ swp.phase = "read"
    /\ swp' = [swp EXCEPT !.phase = "done",
                          !.deleted = ShouldDelete(settings, swp.content, swp.ctime,
                                                   CutoffDate(settings, now))]
    /\ UNCHANGED <<plugin, settings, web, folders, files, now, started, faults, run, tpl>>

SpecSweep == InitSweep /\ [][SweepFile]_vars

----------------------------------------------------------------------------
(* What a run has done, read from its record *)

Events(r, kind, name) == {i \in 1..Len(run[r].log) : run[r].log[i] = <<kind, name>>}
Happened(kind) == \E r \in Runs : \E i \in 1..Len(run[r].log) : run[r].log[i][1] = kind
LoopOver(r) == run[r].pc \in {"save", "done"}
EnabledNames == {ModelFeeds[i].name : i \in {j \in 1..Len(ModelFeeds) : ModelFeeds[j].enabled}}
HasArticles(name) ==
    /\ web[name].status = 200
    /\ web[name].body.format \in {"rss", "atom"}
    /\ web[name].body.items.k # "none"
ArticleCount(name) == Len(web[name].body.items.list)
\* the answer of the server makes updateFeed throw, whatever the vault does
ServerFails(name) ==
    \/ web[name].status # 200
    \/ web[name].body.format = "malformed"
    \/ web[name].body.format = "rss" /\ web[name].body.items.k = "none"

----------------------------------------------------------------------------
(* Properties of the update run *)

\* C1: a pass that runs alone right after a pass that ran alone, with no
\* storage failure and unchanged feeds and settings, creates no file.
C1_SecondPassCreatesNothing ==
    \A r \in Runs \ {1} :
        (/\ run[r].pc = "done" /\ run[r].solo
         /\ run[r - 1].pc = "done" /\ run[r - 1].solo
         /\ faults = 0)
        => run[r].created = {}

\* C2: a file that exists is never given other content or another creation
\* time, and a run waits on vault.create only for a path at which its
\* existence check found nothing.
C2_NeverOverwrites ==
    /\ [][\A p \in DOMAIN files \cap DOMAIN files' : files'[p] = files[p]]_vars
    /\ [](\A r \in Runs : run[r].pc = "create" => ~run[r].existed)

\* C2 witness: a run has finished, it skipped an article of F1 whose path the
\* user's note occupies, and the note still holds the user's text.
C2_Witness ==
    \E r \in Runs :
        /\ run[r].pc = "done"
        /\ Events(r, "skip", "F1") # {}
        /\ NoteInF1 \in DOMAIN files
        /\ files[NoteInF1].content = <<Tok("my note")>>

\* C3: in a run whose loop over the feeds has ended, every enabled feed was
\* fetched exactly once and got exactly one notice, failure or success; a feed
\* whose server answer makes updateFeed throw got the failure notice; and
\* every feed that succeeded had each of its articles written or skipped,
\* whatever happened to the feeds before it.  No run is cut short once it
\* has entered the loop.
C3_FeedFailureIsIsolated ==
    \A r \in Runs :
        /\ run[r].pc = "aborted" => run[r].feedIdx = 0
        /\ LoopOver(r) =>
             \A f \in EnabledNames :
                /\ Cardinality(Events(r, "fetch", f)) = 1
                /\ Cardinality(Events(r, "errorUpdatingFeed", f))
                     + Cardinality(Events(r, "updatedFeed", f)) = 1
                /\ ServerFails(f) => Cardinality(Events(r, "errorUpdatingFeed", f)) = 1
                /\ (Events(r, "updatedFeed", f) # {} /\ HasArticles(f)) =>
                     Cardinality(Events(r, "create", f))
                       + Cardinality(Events(r, "skip", f)) = ArticleCount(f)

\* C3 witness: a finished run in which F1 failed and F3, after it in the
\* list, had an article written.
C3_Witness ==
    \E r \in Runs :
        /\ run[r].pc = "done"
        /\ Events(r, "errorUpdatingFeed", "F1") # {}
        /\ Events(r, "updatedFeed", "F3") # {}
        /\ \E p \in run[r].created : p[1] = <<"RSS", "news">> /\ p \in DOMAIN files

\* C4: no run ends without having reached Finish (the completion notice).
C4_EveryRunFinishes == \A r \in Runs : run[r].pc # "aborted"

\* C5: at most one update run is in flight.
C5_OneRunInFlight == Cardinality({r \in Runs : InFlight(run[r])}) <= 1

\* C6: writing an article to a path that already exists never surfaces as a
\* storage error.
C6_ExistingPathIsSkipped == ~Happened("fileExistsError")

\* C7: with auto-delete enabled every feed whose articles were all processed
\* was swept before its success notice, RSS and Atom alike; with auto-delete
\* disabled nothing is swept.
C7_SweepAfterEveryFeed ==
    \A r \in Runs : \A f \in EnabledNames :
        IF settings.autoDeleteEnabled
        THEN \A i \in Events(r, "updatedFeed", f) :
                HasArticles(f) => \E j \in Events(r, "sweep", f) : j < i
        ELSE Events(r, "sweep", f) = {}

----------------------------------------------------------------------------
(* Properties of the template and of the sweep's decision *)

Placeholders ==
    {"{{title}}", "{{link}}", "{{author}}", "{{publishedTime}}", "{{savedTime}}",
     "{{image}}", "{{description}}", "{{descriptionShort}}", "{{#tags}}", "{{content}}"}

ValueOf(tok, data) ==
    CASE tok[1] = "{{title}}" -> data.title
      [] tok[1] = "{{link}}" -> data.link
      [] tok[1] = "{{author}}" -> data.author
      [] tok[1] = "{{publishedTime}}" -> data.publishedTime
      [] tok[1] = "{{savedTime}}" -> data.savedTime
      [] tok[1] = "{{image}}" -> data.image
      [] tok[1] = "{{description}}" -> data.description
      [] tok[1] = "{{descriptionShort}}" -> data.descriptionShort
      [] tok[1] = "{{#tags}}" -> data.tags
      [] tok[1] = "{{content}}" -> data.content
      [] OTHER -> <<tok>>

\* every placeholder of the template replaced by its value, the values left alone
ExpandOnce(template, data) ==
    Concat([i \in 1..Len(template) |-> ValueOf(template[i], data)])

\* C8: in saved-date mode a file with a parseable saved: line is deleted iff
\* the time of that line is before now - autoDeleteDays * unit, and a file
\* without the line is deleted iff its creation time is before it.
C8_SavedDateRetention ==
    (swp.phase = "done" /\ settings.autoDeleteBasedOn # "publish_date") =>
        LET unit == IF settings.autoDeleteTimeUnit = "minutes" THEN 60000 ELSE 86400000
            cutoff == now - settings.autoDeleteDays * unit
            line == Match(swp.content, SavedKeys)
            time == NewDate(line.value)
        IN  /\ (line.found /\ time.valid) => (swp.deleted <=> time.ms < cutoff)
            /\ ~line.found => (swp.deleted <=> swp.ctime < cutoff)

\* C9: in publish_date mode a file is deleted iff it has a publish_date: line
\* whose value is a valid time before the cutoff.
C9_PublishDateRetention ==
    (swp.phase = "done" /\ settings.autoDeleteBasedOn = "publish_date") =>
        LET line == Match(swp.content, PublishKeys)
            time == NewDate(line.value)
        IN  swp.deleted <=>
                (line.found /\ time.valid /\ time.ms < CutoffDate(settings, now))

\* C10: the rendered file is the template with each placeholder replaced by
\* its value once; placeholder text inside a value stays as it is.
C10_SubstitutionNotRecursive ==
    tpl.phase = "done" =>
        tpl.out = ExpandOnce(prepareTemplate(settings.template, tpl.rssItem),
                             TemplateDataOf(settings, tpl.rssItem))

\* the template without its lines that contain {{image}}; a line ends with
\* its "\n" and a "\r" before it belongs to the line
RECURSIVE DropImageLines(_, _)
DropImageLines(s, line) ==
    IF s = << >>
    THEN (IF Contains(line, "{{image}}") THEN << >> ELSE line)
    ELSE IF Head(s) = Tok("\n")
         THEN (IF Contains(line, "{{image}}") THEN << >> ELSE line \o Str("\n"))
              \o DropImageLines(Tail(s), << >>)
    ELSE DropImageLines(Tail(s), Append(line, Head(s)))

\* C11: with an empty imageUrl the file is rendered from the template without
\* its {{image}} lines (each removed with its line break, the others kept in
\* order); with an imageUrl the file is rendered from the whole template and
\* {{image}} stands for the URL.
C11_ImageLinesStripped ==
    tpl.phase = "done" =>
        LET data == TemplateDataOf(settings, tpl.rssItem)
        IN  IF tpl.rssItem.imageUrl = Empty
            THEN tpl.out = renderTemplate(DropImageLines(settings.template, << >>), data)
            ELSE /\ tpl.out = renderTemplate(settings.template, data)
                 /\ data.image = tpl.rssItem.imageUrl

----------------------------------------------------------------------------
(* One update run over a feed with one item: the image lookup and the file *)
(* name of the article                                                     *)

ImgHtml == <<Tok("<p>"), Tok("<img src='"), Tok("in.png"), Tok("'>"), Tok("</p>")>>
PlainHtml == <<Tok("<p>"), Tok("d"), Tok("</p>")>>

MediaContents == {XNone, XAttrs(Str("mc.png")), XArr(<<XAttrs(Str("mc.png"))>>)}
MediaThumbnails == {XNone, XStr(Str("th.png"))}
\* an enclosure and its type attribute
Enclosures ==
    {<<XNone, Empty>>,
     <<XAttrs(<<Tok("e"), Tok(".mp3")>>), Str("audio/")>>,
     <<XAttrs(<<Tok("e"), Tok(".mp3")>>), <<Tok("image/"), Tok("png")>>>>,
     <<XStr(<<Tok("e"), Tok(".png")>>), Empty>>}
ItemLinks == {XNone, XStr(Str("http://x/a"))}

ImageItems ==
    {[RssEntry(XStr(Str("a")), XStr(ToISOString(OldTime)), l, XStr(ImgHtml)) EXCEPT
          !.mediaContent = mc, !.mediaThumbnail = mt, !.enclosure = e[1],
          !.enclosureType = e[2], !.contentEncoded = ce] :
        mc \in MediaContents, mt \in MediaThumbnails, e \in Enclosures,
        l \in ItemLinks, ce \in {XNone, XStr(ImgHtml), XStr(PlainHtml)}}

TitledItems ==
    {RssEntry(XStr(t), XStr(ToISOString(OldTime)), XNone, XNone) :
        t \in {<<Tok(c)>> : c \in ForbiddenChars}
              \cup {<<Tok("a"), Tok(c), Tok("b")>> : c \in ForbiddenChars}}

ImageEntries ==
    {[AtomEntry(XObj(Str("c")), XStr(ToISOString(OldTime)), l, XStr(Str("s"))) EXCEPT
          !.content = c] :
        l \in {XNone, XArr(<<XAttrs(Str("http://x/c"))>>)},
        c \in {XStr(ImgHtml), XObj(PlainHtml)}}

ItemWorlds ==
    {World(Answer(Body("rss", One(i))), Http500) : i \in ImageItems \cup TitledItems}
    \cup {World(Answer(Body("atom", One(e))), Http500) : e \in ImageEntries}

ItemSettings ==
    {[BaseSettings EXCEPT !.includeImages = i, !.fetchImageFromLink = f,
                          !.fileNameTemplate = n] :
        i \in BOOLEAN, f \in BOOLEAN,
        n \in {DEFAULT_SETTINGS.fileNameTemplate,
               <<Tok("{{published}}"), Tok("|"), Tok("{{title}}")>>}}

InitItems ==
    /\ settings \in ItemSettings
    /\ web \in ItemWorlds
    /\ folders = UsedVault.folders
    /\ files = << >>
    /\ now = T0
    /\ started = 0
    /\ faults = 0
    /\ run = [r \in Runs |-> IdleRun]
    /\ tpl = TplOff
    /\ swp = SwpOff
    /\ plugin = Loaded(settings)

\* the first call of updateFeeds
FirstUpdate == updateFeeds(1)

NextItems ==
    \/ FirstUpdate
    \/ \E r \in Runs : FetchDone(r)
    \/ \E r \in Runs : ParseDone(r)
    \/ \E r \in Runs : ImageFetchDone(r)
    \/ \E r \in Runs : CreateDone(r)
    \/ \E r \in Runs : SaveDone(r)

SpecItems == InitItems /\ [][NextItems]_vars

\* the item a run is processing
CurItem(r) == run[r].items[run[r].itemIdx]
AtItem(r) == run[r].pc \in {"imageFetch", "create"}

\* the four strategies of the image search, each on its own
FromMediaContent(item) == MediaUrl(item.mediaContent)
FromMediaThumbnail(item) == MediaUrl(item.mediaThumbnail)
FromEnclosure(item) ==
    IF \/ isImageUrl(MediaUrl(item.enclosure))
       \/ (item.enclosure.k = "attrs" /\ item.enclosureType # Empty
           /\ item.enclosureType[1] = Tok("image/"))
    THEN MediaUrl(item.enclosure) ELSE Empty
FromEmbeddedImg(item) == extractFromHtmlContent(item)

RECURSIVE FirstNonEmpty(_)
FirstNonEmpty(urls) ==
    IF urls = << >> THEN Empty
    ELSE IF Head(urls) # Empty THEN Head(urls)
    ELSE FirstNonEmpty(Tail(urls))

InOrder(item) ==
    FirstNonEmpty(<<FromMediaContent(item), FromMediaThumbnail(item),
                    FromEnclosure(item), FromEmbeddedImg(item)>>)

\* C12: with image inclusion on, the article of the item a run is processing
\* carries the URL of the first strategy, in the order media:content,
\* media:thumbnail, enclosure, embedded <img>, that yields one; no later
\* strategy and no page lookup replaces it.
C12_ImageFallbackOrder ==
    \A r \in Runs :
        (AtItem(r) /\ settings.includeImages /\ InOrder(CurItem(r)) # Empty) =>
            /\ run[r].pc = "create"
            /\ run[r].rssItem.imageUrl = InOrder(CurItem(r))

\* C12 witness: an item with a media:content attribute object and an embedded
\* <img> is being written with the media:content URL.
C12_Witness ==
    \E r \in Runs :
        /\ run[r].pc = "create" /\ settings.includeImages
        /\ CurItem(r).mediaContent = XAttrs(Str("mc.png"))
        /\ FromEmbeddedImg(CurItem(r)) = Str("in.png")
        /\ run[r].rssItem.imageUrl = Str("mc.png")

\* C13: with image inclusion off the article in hand has no image and no
\* page lookup is under way; a page lookup is under way only when image
\* inclusion and the link fallback are both on, the search in the item found
\* nothing, and the article has a link.
C13_ImageGating ==
    \A r \in Runs :
        /\ (AtItem(r) /\ ~settings.includeImages) =>
              run[r].pc = "create" /\ run[r].rssItem.imageUrl = Empty
        /\ ~settings.includeImages => Events(r, "fetchImage", "F1") = {}
        /\ run[r].pc = "imageFetch" =>
              /\ settings.includeImages /\ settings.fetchImageFromLink
              /\ extractFromItem(CurItem(r)) = Empty
              /\ run[r].rssItem.link # Empty

\* C13 witness: image inclusion is off, the link fallback is on, the item has
\* an image and a link, and its article is being written without an image.
C13_Witness ==
    \E r \in Runs :
        /\ run[r].pc = "create"
        /\ ~settings.includeImages /\ settings.fetchImageFromLink
        /\ InOrder(CurItem(r)) # Empty /\ run[r].rssItem.link # Empty
        /\ run[r].rssItem.imageUrl = Empty

\* C14: a run that has gone through its feeds raised one start notice, one
\* completion notice, and for each enabled feed exactly one notice: success,
\* failure or unsupported format.
C14_OneNoticePerFeed ==
    \A r \in Runs :
        LoopOver(r) =>
            /\ Cardinality(Events(r, "updatingRssFeeds", "")) = 1
            /\ Cardinality(Events(r, "rssFeedUpdateCompleted", "")) = 1
            /\ \A f \in EnabledNames :
                  Cardinality(Events(r, "updatedFeed", f))
                    + Cardinality(Events(r, "errorUpdatingFeed", f))
                    + Cardinality(Events(r, "unsupportedFeedFormat", f)) = 1

----------------------------------------------------------------------------
(* The periodic timer: load, changes of the update interval, unload *)

MaxChanges == 2     \* edits of a number field in one behaviour

\* the float Infinity, greater than every number a text of the model gives
Infinity == 10 ^ 9
\* a run of 400 digits 9, as one piece of text
Nines == "9(x400)"

\* the digits of a radix and their values
DigitsOf(radix) ==
    [c \in {"0", "1", "2", Nines} \cup (IF radix = 16 THEN {"a"} ELSE {}) |->
        IF c = "0" THEN 0 ELSE IF c = "1" THEN 1 ELSE IF c = "2" THEN 2
        ELSE IF c = "a" THEN 10 ELSE Infinity]

\* parseInt, step 1: the text without its leading white space
RECURSIVE SkipWhiteSpace(_)
SkipWhiteSpace(s) ==
    IF s # << >> /\ Head(s)[1] = " " THEN SkipWhiteSpace(Tail(s)) ELSE s

\* parseInt: the longest prefix made of digits of the radix
RECURSIVE DigitPrefix(_, _)
DigitPrefix(s, radix) ==
    IF s = << >> \/ Head(s)[1] \notin DOMAIN DigitsOf(radix) THEN << >>
    ELSE <<Head(s)>> \o DigitPrefix(Tail(s), radix)

\* parseInt: the Number value of a run of digits; a value beyond the range of
\* a double is Infinity
RECURSIVE NumberOf(_, _, _)
NumberOf(digits, radix, acc) ==
    IF digits = << >> THEN acc
    ELSE LET d == DigitsOf(radix)[Head(digits)[1]]
         IN  NumberOf(Tail(digits), radix,
                     IF acc = Infinity \/ d = Infinity THEN Infinity
                     ELSE acc * radix + d)

\* parseInt(value) without a radix: white space, sign, 0x prefix, digits;
\* nan is set when there is no digit
parseInt(value) ==
    LET trimmed  == SkipWhiteSpace(value)
        signed   == trimmed # << >> /\ Head(trimmed)[1] \in {"-", "+"}
        negative == signed /\ Head(trimmed)[1] = "-"
        unsigned == IF signed THEN Tail(trimmed) ELSE trimmed
        hex      == Len(unsigned) >= 2 /\ unsigned[1][1] = "0" /\ unsigned[2][1] = "x"
        radix    == IF hex THEN 16 ELSE 10
        digits   == DigitPrefix(IF hex THEN Tail(Tail(unsigned)) ELSE unsigned, radix)
        number   == NumberOf(digits, radix, 0)
    IN  IF digits = << >> THEN [nan |-> TRUE, n |-> 0]
        ELSE [nan |-> FALSE, n |-> IF negative THEN 0 - number ELSE number]

\* a text, from its characters
Typed(chars) == [i \in 1..Len(chars) |-> Tok(chars[i])]

\* the texts typed or pasted into a number field
SettingTexts ==
    {Typed(<< >>), Typed(<<"0">>), Typed(<<"1">>), Typed(<<"2">>), Typed(<<"-", "1">>),
     Typed(<<"-", "0">>), Typed(<<" ", "1">>), Typed(<<"1", " ", "2">>),
     Typed(<<"2", "a">>), Typed(<<"a", "2">>), Typed(<<"-">>), Typed(<<"0", "x">>),
     Typed(<<"0", "x", "a">>), Typed(<<"1", ".", "2">>), Typed(<<".", "2">>),
     Typed(<<Nines>>), Typed(<<"-", Nines>>), Typed(<<"1", Nines>>)}

Intervals == {0, 1, 2}

InitTimer ==
    /\ settings \in {[BaseSettings EXCEPT !.updateInterval = i] : i \in Intervals}
    /\ plugin = NewPlugin
    /\ web = World(Http500, Http500)
    /\ folders = {} /\ files = << >>
    /\ now = T0 /\ started = 0 /\ faults = 0
    /\ run = [r \in Runs |-> IdleRun]
    /\ tpl = TplOff
    /\ swp = SwpOff

\* LocalRssPlugin.onload, once loadSettings has returned
onload ==
    /\ ~plugin.loaded /\ plugin.nextId = 1
    /\ plugin' = Loaded(settings)
    /\ UNCHANGED <<settings, web, folders, files, now, started, faults, run, tpl, swp>>

\* LocalRssPlugin.onunload
onunload ==
    /\ plugin.loaded
    /\ plugin' = [plugin EXCEPT
                     !.loaded = FALSE,
                     !.armed = IF plugin.updateIntervalId # 0
                               THEN ClearInterval(@, plugin.updateIntervalId) ELSE @]
    /\ UNCHANGED <<settings, web, folders, files, now, started, faults, run, tpl, swp>>

\* the onChange handler of the update interval field, up to its await of
\* onSaveSettings
IntervalChange ==
    /\ plugin.loaded
    /\ plugin.changes < MaxChanges
    /\ \E value \in SettingTexts :
          LET interval == parseInt(value)
          IN  IF ~interval.nan /\ interval.n >= 0
              THEN /\ settings' = [settings EXCEPT !.updateInterval = interval.n]
                   /\ plugin' = [plugin EXCEPT !.saving = @ + 1, !.changes = @ + 1]
              ELSE /\ settings' = settings
                   /\ plugin' = [plugin EXCEPT !.changes = @ + 1]
    /\ UNCHANGED <<web, folders, files, now, started, faults, run, tpl, swp>>

\* await this.onSaveSettings() in that handler, then onStartUpdateInterval()
IntervalSaveDone ==
    /\ plugin.saving > 0
    /\ \E o \in Outcomes :
          /\ Count(o)
          /\ plugin' = IF o = "ok"
                       THEN [startUpdateInterval(plugin, settings) EXCEPT !.saving = @ - 1]
                       ELSE [plugin EXCEPT !.saving = @ - 1]
    /\ UNCHANGED <<settings, web, folders, files, now, started, run, tpl, swp>>

\* the onChange handler of the period before deletion, up to its await of
\* onSaveSettings
DaysChange ==
    /\ plugin.loaded
    /\ plugin.changes < MaxChanges
    /\ \E value \in SettingTexts :
          LET days == parseInt(value)
          IN  IF ~days.nan /\ days.n > 0
              THEN /\ settings' = [settings EXCEPT !.autoDeleteDays = days.n]
                   /\ plugin' = [plugin EXCEPT !.savingDays = @ + 1, !.changes = @ + 1]
              ELSE /\ settings' = settings
                   /\ plugin' = [plugin EXCEPT !.changes = @ + 1]
    /\ UNCHANGED <<web, folders, files, now, started, faults, run, tpl, swp>>

\* await this.onSaveSettings() in that handler; nothing follows it
DaysSaveDone ==
    /\ plugin.savingDays > 0
    /\ \E o \in Outcomes :
          /\ Count(o)
          /\ plugin' = [plugin EXCEPT !.savingDays = @ - 1]
    /\ UNCHANGED <<settings, web, folders, files, now, started, run, tpl, swp>>

NextTimer ==
    \/ onload \/ onunload
    \/ IntervalChange \/ IntervalSaveDone
    \/ DaysChange \/ DaysSaveDone

SpecTimer == InitTimer /\ [][NextTimer]_vars

\* C15: when no interval change awaits its save and no save has failed, at
\* most one timer is armed, one is armed exactly when the plugin is loaded and
\* updateInterval is greater than 0, and its period is updateInterval.
C15_TimerMatchesInterval ==
    (plugin.saving = 0 /\ faults = 0) =>
        /\ Cardinality(plugin.armed) <= 1
        /\ (plugin.armed # {}) <=> (plugin.loaded /\ settings.updateInterval > 0)
        /\ \A tm \in plugin.armed : tm.period = settings.updateInterval

----------------------------------------------------------------------------
(* Escaping one title on its own: saveRssItem, the escaped title *)

MaxYamlLen == 3     \* longest title of the escaping inputs, in pieces of text

YamlPieces == {Tok("a"), Tok(","), Tok(" "), Tok("\n"), Tok("\r"), Tok("\""), Tok("\\")}
YamlStrings == UNION {[1..n -> YamlPieces] : n \in 1..MaxYamlLen}

InitYaml ==
    /\ tpl \in {[phase |-> "raw", rssItem |-> [NoItem EXCEPT !.title = t], out |-> Empty] :
                  t \in YamlStrings}
    /\ settings = BaseSettings
    /\ web = World(Http500, Http500)
    /\ folders = {} /\ files = << >>
    /\ now = T0 /\ started = 0 /\ faults = 0
    /\ run = [r \in Runs |-> IdleRun]
    /\ swp = SwpOff
    /\ plugin = Loaded(settings)

\* saveRssItem, line 322: escapedTitle
EscapeTitle ==
    /\ tpl.phase = "raw"
    /\ tpl' = [tpl EXCEPT !.phase = "escaped",
                          !.out = TemplateDataOf(settings, tpl.rssItem).title]
    /\ UNCHANGED <<settings, web, folders, files, now, started, faults, run, swp, plugin>>

SpecYaml == InitYaml /\ [][EscapeTitle]_vars

\* reading an escaped value back: the surrounding quotes removed, then \" read
\* as " and \\ as \
StripQuotes(s) ==
    IF Len(s) >= 2 /\ s[1] = Tok("\"") /\ s[Len(s)] = Tok("\"")
    THEN SubSeq(s, 2, Len(s) - 1) ELSE s

RECURSIVE Unescape(_)
Unescape(s) ==
    IF s = << >> THEN << >>
    ELSE IF Len(s) >= 2 /\ s[1] = Tok("\\") /\ s[2] \in {Tok("\\"), Tok("\"")}
         THEN <<s[2]>> \o Unescape(Tail(Tail(s)))
    ELSE <<s[1]>> \o Unescape(Tail(s))

\* C16 as stated: a title with a comma is recovered from its escaped form,
\* up to the collapse of each line break to a space.
C16_RoundTripAsStated ==
    (tpl.phase = "escaped" /\ Contains(tpl.rssItem.title, ",")) =>
        Unescape(StripQuotes(tpl.out)) = ReplaceNewlines(tpl.rssItem.title)

\* C16: a title with a comma is escaped into a quoted value, and reading that
\* value back gives the title with each line break collapsed to a space and
\* the white space at both ends removed.
C16_RoundTripUpToTrim ==
    (tpl.phase = "escaped" /\ Contains(tpl.rssItem.title, ",")) =>
        /\ Len(tpl.out) >= 2 /\ tpl.out[1] = Tok("\"") /\ tpl.out[Len(tpl.out)] = Tok("\"")
        /\ Unescape(StripQuotes(tpl.out)) = Trim(ReplaceNewlines(tpl.rssItem.title))

\* C16 witness: a title with a comma, a quote and a backslash was escaped.
C16_Witness ==
    /\ tpl.phase = "escaped"
    /\ tpl.rssItem.title = <<Tok("\""), Tok(","), Tok("\\")>>
    /\ tpl.out = <<Tok("\""), Tok("\\"), Tok("\""), Tok(","), Tok("\\"), Tok("\\"), Tok("\"")>>

----------------------------------------------------------------------------
(* The file name of an article *)

\* pieces of text that hold one of \ / : * ? " < > |
HasForbidden(tok) ==
    tok[1] \in ForbiddenChars \cup {"date", "NaN-NaN-NaN NaN:NaN:NaN"}

\* a piece of text with each of its forbidden characters turned into '-'
Dashed(tok) ==
    CASE tok[1] \in ForbiddenChars -> Tok("-")
      [] tok[1] = "date" -> <<"date-", tok[2]>>
      [] tok[1] = "NaN-NaN-NaN NaN:NaN:NaN" -> Tok("NaN-NaN-NaN NaN-NaN-NaN")
      [] OTHER -> tok

\* C17: the file name a run is about to create holds none of \ / : * ? " < > |;
\* it is the rendered file name template with each of these characters, from
\* the title, the formatted date or the template text, replaced by '-' and
\* every other character unchanged.
C17_FileNameSanitized ==
    \A r \in Runs :
        run[r].pc = "create" =>
            LET rendered == RenderedFileName(settings, run[r].rssItem)
                name == run[r].fileName[2]
            IN  /\ Len(name) = Len(rendered)
                /\ \A i \in 1..Len(name) :
                       /\ ~HasForbidden(name[i])
                       /\ name[i] = Dashed(rendered[i])

\* C17 witness: a title with a forbidden character under a template with a
\* forbidden character and the date; all three were replaced.
C17_Witness ==
    \E r \in Runs :
        /\ run[r].pc = "create"
        /\ settings.fileNameTemplate = <<Tok("{{published}}"), Tok("|"), Tok("{{title}}")>>
        /\ run[r].rssItem.title = <<Tok("a"), Tok("?"), Tok("b")>>
        /\ Len(run[r].fileName[2]) = 5
        /\ run[r].fileName[2][1][1] = "date-"
        /\ SubSeq(run[r].fileName[2], 2, 5) = <<Tok("-"), Tok("a"), Tok("-"), Tok("b")>>

----------------------------------------------------------------------------
(* The order of the steps of one run *)

\* the positions of the log of run r where a feed is fetched
FetchAt(r) == {i \in 1..Len(run[r].log) : run[r].log[i][1] = "fetch"}
\* the last fetch at or before position j of the log of run r (0: none)
FetchBefore(r, j) ==
    IF \E i \in FetchAt(r) : i <= j
    THEN CHOOSE i \in FetchAt(r) : i <= j /\ \A k \in FetchAt(r) : k <= j => k <= i
    ELSE 0
FeedEnded(ev) == ev[1] \in {"updatedFeed", "errorUpdatingFeed"}
ItemWritten(ev) == ev[1] \in {"create", "skip"}
\* the writes and skips of run r for the feed it is at
ItemsWritten(r) ==
    Cardinality({j \in 1..Len(run[r].log) :
                    /\ j > FetchBefore(r, Len(run[r].log))
                    /\ ItemWritten(run[r].log[j])})

\* the feeds are fetched in the order of the list of enabled feeds
FeedsInListOrder(r) ==
    LET log == run[r].log
        enabled == SelectSeq(settings.feeds, LAMBDA f : f.enabled)
    IN  /\ Cardinality(FetchAt(r)) <= Len(enabled)
        /\ \A i \in FetchAt(r) :
               log[i][2] = enabled[Cardinality({k \in FetchAt(r) : k <= i})].name

\* every step of a feed lies between its fetch and the fetch of the next feed,
\* which starts only when the feed has ended
FeedsOneAtATime(r) ==
    LET log == run[r].log
    IN  \A j \in 1..Len(log) :
            /\ log[j][2] # "" =>
                   /\ FetchBefore(r, j) # 0
                   /\ log[FetchBefore(r, j)][2] = log[j][2]
            /\ (log[j][1] = "fetch" /\ FetchBefore(r, j - 1) # 0) =>
                   /\ FeedEnded(log[j - 1])
                   /\ \A k \in (FetchBefore(r, j - 1) + 1)..(j - 2) : ~FeedEnded(log[k])
            /\ (FeedEnded(log[j]) /\ j < Len(log)) =>
                   log[j + 1][1] \in {"fetch", "rssFeedUpdateCompleted"}

\* the items are taken in feed order, one at a time
ItemsOneAtATime(r) ==
    LET log == run[r].log
    IN  /\ run[r].pc = "imageFetch" =>
               /\ ItemsWritten(r) = run[r].itemIdx - 1
               /\ log[Len(log)][1] = "fetchImage"
        /\ run[r].pc = "create" =>
               /\ ItemsWritten(r) = run[r].itemIdx
               /\ log[Len(log)][1] = "create"
        /\ run[r].pc \in {"sweepRead", "sweepDelete"} =>
               /\ ItemsWritten(r) = Len(run[r].items)
               /\ log[Len(log)][1] = "sweep"
        /\ \A j \in 1..Len(log) :
               (log[j][1] = "fetchImage" /\ j < Len(log)) => ItemWritten(log[j + 1])

\* a step of run r that leaves a pending vault.create has created the file, or
\* has ended the feed with a failure
CreateCompletes(r) ==
    (run[r].pc = "create" /\ run'[r].log # run[r].log) =>
        \/ run[r].fileName \in run'[r].created /\ run[r].fileName \in DOMAIN files'
        \/ run'[r].log[Len(run[r].log) + 1][1] \in {"fileExistsError", "errorUpdatingFeed"}

\* C18: within a run the enabled feeds are processed one at a time in list
\* order and the items one at a time in feed order: every step of a feed (fetch,
\* parse, item writes with their image lookups, sweep) is over before the next
\* feed is fetched, and the write of an item is over or skipped before the next
\* item is processed.
C18_SequentialWithinRun ==
    /\ [](\A r \in Runs : FeedsInListOrder(r) /\ FeedsOneAtATime(r) /\ ItemsOneAtATime(r))
    /\ [][\A r \in Runs : CreateCompletes(r)]_vars

\* C18 witness: a run has fetched two feeds; it wrote one item of the first,
\* skipped the other and swept the folder before it fetched the second, of
\* which it wrote an item.
C18_Witness ==
    \E r \in Runs :
        LET log == run[r].log
        IN  \E i, j \in FetchAt(r) :
                /\ i < j
                /\ \E k \in i..j : log[k][1] = "create"
                /\ \E k \in i..j : log[k][1] = "skip"
                /\ \E k \in i..j : log[k][1] = "sweep"
                /\ \E k \in j..Len(log) : log[k][1] = "create"

----------------------------------------------------------------------------
(* Failures inside a sweep *)

InSweep(rr) == rr.pc \in {"sweepRead", "sweepDelete"}
FileAt(rr) == rr.sweepFiles[rr.sweepIdx]

\* run r takes a step of its sweep
SweepStep(r) ==
    /\ InSweep(run[r])
    /\ \/ run'[r].log # run[r].log
       \/ run'[r].pc # run[r].pc
       \/ run'[r].sweepIdx # run[r].sweepIdx

\* a step in which the read or the delete of the file run r is at fails
SweepFailure(r) ==
    /\ SweepStep(r)
    /\ \/ faults' = faults + 1
       \/ FileAt(run[r]) \notin DOMAIN files

\* the sweep of run r goes on with the next file of its list, or is over
\* with the last file and the feed ends with its success notice
SweepGoesOn(r) ==
    IF run[r].sweepIdx < Len(run[r].sweepFiles)
    THEN /\ run'[r].pc = "sweepRead"
         /\ run'[r].sweepFiles = run[r].sweepFiles
         /\ run'[r].sweepIdx = run[r].sweepIdx + 1
         /\ run'[r].log = run[r].log
    ELSE /\ Len(run'[r].log) > Len(run[r].log)
         /\ run'[r].log[Len(run[r].log) + 1] = <<"updatedFeed", CurFeed(run[r]).name>>
         /\ run'[r].pc \in {"fetch", "save"}

\* a file that is read and found past the cutoff is deleted next, and a delete
\* that succeeds removes it
SweepDeletes(r) ==
    LET file == FileAt(run[r])
    IN  /\ (run[r].pc = "sweepRead" /\ SweepStep(r) /\ faults' = faults
              /\ file \in DOMAIN files
              /\ ShouldDelete(settings, files[file].content, files[file].ctime,
                              run[r].cutoffDate)) =>
                 run'[r].pc = "sweepDelete" /\ FileAt(run'[r]) = file
        /\ (run[r].pc = "sweepDelete" /\ SweepStep(r) /\ faults' = faults
              /\ file \in DOMAIN files) =>
                 file \notin DOMAIN files' /\ SweepGoesOn(r)

\* C19: when the read or the delete of one file fails during a sweep, the
\* step leaves every file in place, the sweep goes on with the next file of
\* its list (the files after it are read and, past the cutoff, deleted), no
\* feed failure notice is raised and the run is not stopped.
C19_SweepFailureIsolated ==
    [][\A r \in Runs :
          /\ SweepFailure(r) =>
                 /\ files' = files
                 /\ SweepGoesOn(r)
                 /\ \A i \in (Len(run[r].log) + 1)..Len(run'[r].log) :
                        run'[r].log[i][1] \notin {"errorUpdatingFeed", "uncaught"}
                 /\ run'[r].pc # "aborted"
          /\ SweepDeletes(r)]_vars

\* C19 witness: a run on its own is reading a file of a sweep after a storage
\* failure on an earlier file of the same sweep, which is past the cutoff and
\* still there.
C19_Witness ==
    \E r \in Runs :
        /\ run[r].pc = "sweepRead"
        /\ faults = 1
        /\ run[r].sweepIdx > 1
        /\ \A q \in Runs : q # r => run[q].pc = "idle"
        /\ \E i \in 1..(run[r].sweepIdx - 1) :
               LET file == run[r].sweepFiles[i]
               IN  /\ file \in DOMAIN files
                   /\ ShouldDelete(settings, files[file].content, files[file].ctime,
                                   run[r].cutoffDate)

----------------------------------------------------------------------------
(* What a sweep may delete *)

\* C20: a sweep deletes only files right under the folder of the feed it
\* sweeps that have the extension md; a file in a sub-folder, a file with
\* another extension, a folder and a file under the folder of another feed
\* are left as they are.
C20_SweepScope ==
    [][/\ folders \subseteq folders'
       /\ \A p \in DOMAIN files \cap DOMAIN files' : files'[p] = files[p]
       /\ \A p \in DOMAIN files \ DOMAIN files' :
              \E r \in Runs :
                  /\ run[r].pc = "sweepDelete"
                  /\ p = run[r].sweepFiles[run[r].sweepIdx]
                  /\ p[1] = CurFolder(run[r])
                  /\ p[3] = "md"]_vars

\* C20 witness: a run is over that swept the folder of F1 and deleted the
\* note in it; the picture beside the note, the old note in the sub-folder
\* and the article of the other feed, all older than the cutoff, are there.
C20_Witness ==
    \E r \in Runs :
        /\ run[r].pc = "done"
        /\ NoteInF1 \in run[r].swept
        /\ NoteInF1 \notin DOMAIN files
        /\ {PictureInF1, NoteInSubFolder, ArticleInNews} \subseteq DOMAIN files
        /\ <<"RSS", "F1", "sub">> \in folders

----------------------------------------------------------------------------
(* The image search on one item, on its own *)

\* URLs of enclosures: scheme, host, path and an optional query or fragment
UrlHosts == {<<Tok("http://"), Tok("x")>>, <<Tok("http://"), Tok("imgur.com")>>}
UrlPaths == {<<Tok("/"), Tok("e"), Tok(x)>> : x \in {".mp3", ".png", ".PNG"}}
UrlTails == {Empty, <<Tok("?"), Tok("v=1")>>, <<Tok("?"), Tok("f="), Tok(".png")>>,
             <<Tok("?"), Tok("u="), Tok("imgur.com")>>, <<Tok("#"), Tok("top")>>}
EnclosureUrls == {h \o q \o t : h \in UrlHosts, q \in UrlPaths, t \in UrlTails}
EnclosureTypes == {Empty, <<Tok("audio/"), Tok("mpeg")>>, <<Tok("image/"), Tok("png")>>}

EnclosureItems ==
    {[RssEntry(XStr(Str("a")), XNone, XNone, XStr(PlainHtml)) EXCEPT
          !.enclosure = e, !.enclosureType = ty, !.contentEncoded = XStr(ImgHtml)] :
        e \in {XStr(u) : u \in EnclosureUrls}, ty \in {Empty}}
    \cup {[RssEntry(XStr(Str("a")), XNone, XNone, XStr(PlainHtml)) EXCEPT
               !.enclosure = e, !.enclosureType = ty, !.contentEncoded = XStr(ImgHtml)] :
             e \in {XAttrs(u) : u \in EnclosureUrls}, ty \in EnclosureTypes}

\* items that carry HTML only: RSS with content:encoded and description, Atom
\* with content and summary
HtmlTexts == {XNone, XStr(Empty), XStr(PlainHtml), XStr(ImgHtml)}
RssHtmlItems ==
    {[RssEntry(XStr(Str("a")), XNone, XNone, d) EXCEPT !.contentEncoded = ce] :
        d \in HtmlTexts, ce \in HtmlTexts}
AtomHtmlItems ==
    {[AtomEntry(XStr(Str("a")), XNone, XNone, sm) EXCEPT !.content = c] :
        sm \in HtmlTexts \cup {XObj(ImgHtml)}, c \in HtmlTexts \cup {XObj(ImgHtml)}}

InitExtract ==
    /\ tpl \in {[phase |-> "item", format |-> "rss", item |-> i, out |-> Empty] :
                  i \in EnclosureItems \cup RssHtmlItems}
                \cup {[phase |-> "item", format |-> "atom", item |-> i, out |-> Empty] :
                         i \in AtomHtmlItems}
    /\ settings = BaseSettings
    /\ web = World(Http500, Http500)
    /\ folders = {} /\ files = << >>
    /\ now = T0 /\ started = 0 /\ faults = 0
    /\ run = [r \in Runs |-> IdleRun]
    /\ swp = SwpOff
    /\ plugin = Loaded(settings)

\* rssItem.imageUrl = this.imageExtractor.extractFromItem(item)
ExtractImage ==
    /\ tpl.phase = "item"
    /\ tpl' = [tpl EXCEPT !.phase = "extracted", !.out = extractFromItem(tpl.item)]
    /\ UNCHANGED <<settings, web, folders, files, now, started, faults, run, swp, plugin>>

SpecExtract == InitExtract /\ [][ExtractImage]_vars

\* the parts of a URL: the host lies between the scheme and the first "/", the
\* path runs from there to the query or the fragment
RECURSIVE FirstAt(_, _, _)
FirstAt(url, tags, i) ==
    IF i > Len(url) THEN Len(url) + 1
    ELSE IF url[i][1] \in tags THEN i
    ELSE FirstAt(url, tags, i + 1)
HostOf(url) == SubSeq(url, 2, FirstAt(url, {"/", "?", "#"}, 2) - 1)
PathOf(url) ==
    SubSeq(url, FirstAt(url, {"/", "?", "#"}, 2), FirstAt(url, {"?", "#"}, 2) - 1)

\* the three grounds on which an enclosure counts as an image
ImagePath(url) ==
    PathOf(url) # Empty /\ LowerCase(PathOf(url)[Len(PathOf(url))][1]) \in ImageExtensions
ImageHost(url) == \E i \in 1..Len(HostOf(url)) : HostOf(url)[i][1] \in ImageHosts
ImageType(item) ==
    /\ item.enclosure.k = "attrs"
    /\ item.enclosureType # Empty
    /\ item.enclosureType[1] = Tok("image/")

\* C21: the enclosure step yields the URL of the enclosure exactly when the
\* path of the URL ends in an image extension, or its host contains one of the
\* image hosts, or the enclosure has an image/ type; otherwise the search
\* falls through to the <img> of the HTML.
C21_EnclosureAcceptance ==
    (tpl.phase = "extracted" /\ tpl.item.enclosure.k # "none") =>
        LET url == tpl.item.enclosure.v
        IN  IF ImagePath(url) \/ ImageHost(url) \/ ImageType(tpl.item)
            THEN tpl.out = url
            ELSE tpl.out = extractFromHtmlContent(tpl.item) /\ tpl.out # url

\* the HTML of an item as C22 names it
HtmlOf(format, item) ==
    IF format = "rss"
    THEN (IF normalizeValue(item.contentEncoded) # Empty
          THEN normalizeValue(item.contentEncoded)
          ELSE normalizeValue(item.description))
    ELSE (IF normalizeValue(item.content) # Empty
          THEN normalizeValue(item.content)
          ELSE normalizeValue(item.summary))

\* C22: with no image from the media elements, the search returns the src of
\* the first <img> of content:encoded or, when that is absent or empty, of
\* description (RSS); of content or, when that is absent or empty, of summary
\* (Atom).
C22_EmbeddedHtmlFallback ==
    (tpl.phase = "extracted" /\ tpl.item.enclosure.k = "none") =>
        tpl.out = FirstImgSrc(HtmlOf(tpl.format, tpl.item))

----------------------------------------------------------------------------
(* The categories of one item, on their own *)

MaxCategories == 3  \* longest category array of the inputs

CategoryEntries ==
    {XStr(Str("tech")), XStr(<<Tok(" "), Tok("news"), Tok(" ")>>), XStr(Str(" ")),
     XTerm(Str("tech")), XTerm(Empty), XObj(Str("life")), XObj(<<Tok("tech"), Tok("\n")>>)}
CategoryFields ==
    {XNone} \cup CategoryEntries
    \cup {XArr(a) : a \in UNION {[1..n -> CategoryEntries] : n \in 1..MaxCategories}}

InitCategories ==
    /\ tpl \in {[phase |-> "raw", category |-> c, out |-> << >>] : c \in CategoryFields}
    /\ settings = BaseSettings
    /\ web = World(Http500, Http500)
    /\ folders = {} /\ files = << >>
    /\ now = T0 /\ started = 0 /\ faults = 0
    /\ run = [r \in Runs |-> IdleRun]
    /\ swp = SwpOff
    /\ plugin = Loaded(settings)

\* categories: this.normalizeCategories(item.category)
NormalizeCategories ==
    /\ tpl.phase = "raw"
    /\ tpl' = [tpl EXCEPT !.phase = "normalized", !.out = normalizeCategories(tpl.category)]
    /\ UNCHANGED <<settings, web, folders, files, now, started, faults, run, swp, plugin>>

SpecCategories == InitCategories /\ [][NormalizeCategories]_vars

\* the entries of a category field, and the text of an entry without the
\* white space at its ends
EntriesOf(field) ==
    IF field.k = "none" THEN << >> ELSE IF field.k = "arr" THEN field.a ELSE <<field>>
RECURSIVE Trimmed(_)
Trimmed(text) ==
    IF text = << >> THEN << >>
    ELSE IF text[1][1] \in WhiteSpace THEN Trimmed(Tail(text))
    ELSE IF text[Len(text)][1] \in WhiteSpace THEN Trimmed(SubSeq(text, 1, Len(text) - 1))
    ELSE text
\* the positions of the entries whose text is not empty
Kept(field) == {i \in 1..Len(EntriesOf(field)) : Trimmed(EntriesOf(field)[i].v) # << >>}

\* C23: normalizeCategories returns the trimmed, non-empty texts of the
\* entries in input order: one text per entry with a non-empty text, repeated
\* texts kept, and the empty list for an absent field.
C23_CategoriesNormalized ==
    tpl.phase = "normalized" =>
        /\ Len(tpl.out) = Cardinality(Kept(tpl.category))
        /\ \A i \in Kept(tpl.category) :
               tpl.out[Cardinality({j \in Kept(tpl.category) : j <= i})]
                   = Trimmed(EntriesOf(tpl.category)[i].v)

\* C23 witness: an array with a term entry, the same text again with white
\* space around it and an entry of white space alone gave the text twice.
C23_Witness ==
    /\ tpl.phase = "normalized"
    /\ tpl.category = XArr(<<XTerm(Str("tech")), XStr(Str(" ")),
                             XObj(<<Tok("tech"), Tok("\n")>>)>>)
    /\ tpl.out = <<Str("tech"), Str("tech")>>

----------------------------------------------------------------------------
(* The page lookup for the image of an article *)

\* every article page answers the same way
WithPage(w, page) == [w EXCEPT !["pages"] = {page}]

RelativeOgPage == Page(200, <<Tok("<meta property='og:image' content='"), Tok("/og.png"),
                              Tok("'")>>)
Pages ==
    {Page(500, Empty), Page(404, OgPage.text), Page(0, Empty), Page(200, Empty),
     Page(200, <<Tok("<html>"), Tok("<meta name='viewport' content='"), Tok("w"), Tok("'")>>),
     OgPage, RelativeOgPage,
     Page(200, <<Tok("<meta content='"), Tok("og2.png"), Tok("' property='og:image'")>>),
     Page(200, <<Tok("<meta name='twitter:image' content='"), Tok("tw.png"), Tok("'")>>),
     Page(200, <<Tok("<meta content='"), Tok("tw2.png"), Tok("' name='twitter:image'")>>)}

\* two articles without any image of their own, with a link to their page
PageLinks == {Str("http://x/a"), Str("a.html")}
LinkedItems(l) ==
    <<RssEntry(XStr(Str("a")), XStr(ToISOString(OldTime)), XStr(l), XStr(PlainHtml)),
      RssEntry(XStr(Str("b")), XStr(ToISOString(OldTime)), XStr(l), XStr(PlainHtml))>>
LinkedEntries(l) ==
    <<[AtomEntry(XStr(Str("a")), XStr(ToISOString(OldTime)), XAttrs(l), XStr(Str("s")))
          EXCEPT !.content = XStr(PlainHtml)],
      [AtomEntry(XStr(Str("b")), XStr(ToISOString(OldTime)), XAttrs(l), XStr(Str("s")))
          EXCEPT !.content = XStr(PlainHtml)]>>

PageWorlds ==
    {WithPage(World(Answer(Body("rss", Many(LinkedItems(l)))), Http500), page) :
        l \in PageLinks, page \in Pages}
    \cup {WithPage(World(Answer(Body("atom", Many(LinkedEntries(l)))), Http500), page) :
             l \in PageLinks, page \in Pages}

InitPages ==
    /\ settings = [BaseSettings EXCEPT !.includeImages = TRUE, !.fetchImageFromLink = TRUE]
    /\ web \in PageWorlds
    /\ folders = UsedVault.folders
    /\ files = << >>
    /\ now = T0
    /\ started = 0
    /\ faults = 0
    /\ run = [r \in Runs |-> IdleRun]
    /\ tpl = TplOff
    /\ swp = SwpOff
    /\ plugin = Loaded(settings)

SpecPages == InitPages /\ [][NextItems]_vars

\* the answer of the article pages, and the link of the articles
ThePage == CHOOSE page \in web["pages"] : TRUE
TheLink == normalizeAtomLink(web["F1"].body.items.list[1].link)
HasImageTag(text) ==
    \E i \in 1..Len(text) :
        text[i][1] \in {"<meta property='og:image' content='", "' property='og:image'",
                        "<meta name='twitter:image' content='", "' name='twitter:image'"}
\* the ways a lookup fails: a status other than 200, a network error, an empty
\* body, no image tag, a root-relative image under a link that is no URL
LookupFails ==
    \/ ThePage.status # 200
    \/ ThePage.text = Empty
    \/ ~HasImageTag(ThePage.text)
    \/ ThePage = RelativeOgPage /\ TheLink = Str("a.html")

\* the article of the i-th item of F1 with an empty imageUrl
ImageLess(i) ==
    LET body == web["F1"].body
        item == body.items.list[i]
    IN  [(IF body.format = "rss" THEN RssItemOfRss(item, ModelFeeds[1], now)
          ELSE RssItemOfAtom(item, body.title, ModelFeeds[1], now))
         EXCEPT !.imageUrl = Empty]

\* C24: when the page lookup fails, the article is written with an empty
\* imageUrl, the other items of the feed are processed and the feed ends with
\* its success notice, not with a failure notice.
C24_SoftImageFailure ==
    \A r \in Runs :
        (LookupFails /\ faults = 0) =>
            /\ Events(r, "errorUpdatingFeed", "F1") = {}
            /\ run[r].pc = "create" => run[r].rssItem.imageUrl = Empty
            /\ \A p \in run[r].created :
                   \E i \in 1..2 : files[p].content = FileContentOf(settings, ImageLess(i))
            /\ LoopOver(r) =>
                   /\ Cardinality(run[r].created) = 2
                   /\ Cardinality(Events(r, "fetchImage", "F1")) = 2
                   /\ Events(r, "updatedFeed", "F1") # {}

\* C24 witness: the page requests failed with a network error, and the run
\* is over with both articles written.
C24_Witness ==
    \E r \in Runs :
        /\ ThePage = Page(0, Empty)
        /\ run[r].pc = "done"
        /\ Cardinality(Events(r, "fetchImage", "F1")) = 2
        /\ Cardinality(run[r].created) = 2
        /\ \A p \in run[r].created : p \in DOMAIN files

----------------------------------------------------------------------------
(* What one run on its own leaves in the vault *)

\* the vault the behaviour started from (the sub-folder is never removed)
InitialVault == IF <<"RSS", "F1", "sub">> \in folders THEN UsedVault ELSE EmptyVault

\* the article of an item, without a page lookup
ArticleOf(feed, body, item) ==
    LET base == IF body.format = "rss" THEN RssItemOfRss(item, feed, T0)
                ELSE RssItemOfAtom(item, body.title, feed, T0)
    IN  IF settings.includeImages THEN [base EXCEPT !.imageUrl = extractFromItem(item)]
        ELSE base

\* the files after the items from the i-th on were written where no file was
RECURSIVE AfterItems(_, _, _, _)
AfterItems(fs, feed, body, i) ==
    IF i > Len(body.items.list) THEN fs
    ELSE LET rssItem == ArticleOf(feed, body, body.items.list[i])
             path == <<FeedFolderPath(settings.folderPath, feed),
                       FileNameOf(settings, rssItem), "md">>
         IN  AfterItems(IF path \in DOMAIN fs THEN fs
                        ELSE [p \in DOMAIN fs \cup {path} |->
                                 IF p = path
                                 THEN [content |-> FileContentOf(settings, rssItem),
                                       ctime |-> T0]
                                 ELSE fs[p]],
                        feed, body, i + 1)

\* the files after the retention rule was applied to the folder of the feed
AfterSweep(fs, feed) ==
    LET old == {p \in DOMAIN fs :
                  /\ p[1] = FeedFolderPath(settings.folderPath, feed)
                  /\ p[3] = "md"
                  /\ ShouldDelete(settings, fs[p].content, fs[p].ctime,
                                  CutoffDate(settings, T0))}
    IN  [p \in DOMAIN fs \ old |-> fs[p]]

\* the files after one feed: nothing changes when the feed fails
AfterFeed(fs, feed) ==
    LET body == web[feed.name].body
    IN  IF ServerFails(feed.name) THEN fs
        ELSE IF body.format = "rss"
             THEN (IF settings.autoDeleteEnabled
                   THEN AfterSweep(AfterItems(fs, feed, body, 1), feed)
                   ELSE AfterItems(fs, feed, body, 1))
        ELSE IF body.format = "atom" /\ body.items.k # "none"
             THEN AfterItems(fs, feed, body, 1)
        ELSE fs

RECURSIVE AfterFeeds(_, _)
AfterFeeds(fs, feeds) ==
    IF feeds = << >> THEN fs
    ELSE AfterFeeds(AfterFeed(fs, Head(feeds)), Tail(feeds))

SingleRunFiles ==
    AfterFeeds(InitialVault.files, SelectSeq(settings.feeds, LAMBDA f : f.enabled))

\* two runs that overlapped are both over; no storage failure, no time passed
OverlappedRunsOver ==
    /\ \A r \in Runs : run[r].pc \in {"done", "aborted"}
    /\ \E r \in Runs : ~run[r].solo
    /\ faults = 0
    /\ now = T0

\* C25: when two overlapping runs are both over, the files in the vault are
\* those one run on its own would have left: no article twice, none missing.
C25_OverlappingRunsConverge ==
    OverlappedRunsOver => DOMAIN files = DOMAIN SingleRunFiles

----------------------------------------------------------------------------
(* A channel without items *)

EmptyChannel(name) ==
    /\ web[name].status = 200
    /\ web[name].body.format = "rss"
    /\ web[name].body.items.k = "none"

\* C26: an RSS feed whose channel has no item is a success: once the loop over
\* the feeds is over, with no storage failure, the run wrote no file for the
\* feed, swept its folder when auto-delete is on, raised the success notice
\* and raised no failure notice.
C26_EmptyChannelSucceeds ==
    \A r \in Runs : \A name \in EnabledNames :
        (LoopOver(r) /\ EmptyChannel(name) /\ faults = 0) =>
            /\ Events(r, "create", name) = {}
            /\ settings.autoDeleteEnabled => Events(r, "sweep", name) # {}
            /\ Events(r, "updatedFeed", name) # {}
            /\ Events(r, "errorUpdatingFeed", name) = {}

----------------------------------------------------------------------------
(* The sweep and the files of the same pass *)

\* C27: the sweep of a pass deletes no file the pass created: after a pass
\* that ran on its own, every file it created is in the vault.
C27_SweepSparesNewFiles ==
    \A r \in Runs :
        /\ run[r].created \cap run[r].swept = {}
        /\ (LoopOver(r) /\ started = 1) => \A p \in run[r].created : p \in DOMAIN files

----------------------------------------------------------------------------
(* Page lookups and articles that are already in the vault *)

\* the path saveRssItem computes for the article a run is working on
ArticlePath(rr, st) == FilePath(CurFolder(rr), FileNameOf(st, rr.rssItem))

\* C28: no page lookup is issued for an article whose file already exists at
\* the moment the item is processed.
C28_NoLookupForSkipped ==
    [][\A r \in Runs :
          (run'[r].pc = "imageFetch" /\ run'[r].log # run[r].log)
              => ~Exists(files', ArticlePath(run'[r], settings'))]_vars

----------------------------------------------------------------------------
(* Two items of one feed with the same file path *)

\* titles of a feed's items: plain, with a forbidden character, empty, missing
CollisionTitles ==
    {XStr(Str("a")), XStr(<<Tok("a"), Tok(":")>>), XStr(<<Tok("a"), Tok("/")>>),
     XStr(<<Tok("a"), Tok("-")>>), XStr(Str("Untitled")), XStr(Empty), XNone}
CollisionLinks == {XNone, XStr(Str("http://x/a"))}

\* a feed of two items that differ in their descriptions
CollisionItems ==
    {<<RssEntry(t1, XStr(ToISOString(T0)), l, XStr(Str("first"))),
       RssEntry(t2, XStr(ToISOString(T0)), l, XStr(Str("second")))>> :
        t1 \in CollisionTitles, t2 \in CollisionTitles, l \in CollisionLinks}

CollisionSettings ==
    {BaseSettings,
     [BaseSettings EXCEPT !.fetchImageFromLink = TRUE],
     [BaseSettings EXCEPT !.fileNameTemplate =
                              <<Tok("{{published}}"), Tok(" "), Tok("{{title}}")>>]}

InitCollisions ==
    /\ settings \in CollisionSettings
    /\ web \in {World(Answer(Body("rss", Many(items))), Http500) : items \in CollisionItems}
    /\ folders = UsedVault.folders
    /\ files = << >>
    /\ now = T0
    /\ started = 0
    /\ faults = 0
    /\ run = [r \in Runs |-> IdleRun]
    /\ tpl = TplOff
    /\ swp = SwpOff
    /\ plugin = Loaded(settings)

SpecCollisions == InitCollisions /\ [][NextItems]_vars

\* the article of the i-th item of F1, and the path of its file
ArticleAt(i) == RssItemOfRss(web["F1"].body.items.list[i], ModelFeeds[1], T0)
PathAt(i) ==
    FilePath(FeedFolderPath(settings.folderPath, ModelFeeds[1]),
             FileNameOf(settings, ArticleAt(i)))
\* the renderings of the i-th item, with any image a page lookup can give
RenderingsAt(i) ==
    {FileContentOf(settings, [ArticleAt(i) EXCEPT !.imageUrl = u]) :
        u \in {Empty} \cup {fetchFromUrl(ArticleAt(i).link, page) : page \in web["pages"]}}
\* what a run reports of F1 once the feed is fetched
ItemEvents(r) ==
    SelectSeq(run[r].log,
              LAMBDA e : e[2] = "F1" /\ e[1] \notin {"fetch", "fetchImage"})

\* C29: when two items of a feed compute the same path and the first one is
\* written, the path holds the rendering of the first item, it is the only
\* file, and the second item is skipped: the feed ends with its success
\* notice and no error.
C29_CollisionKeepsFirst ==
    \A r \in Runs :
        (PathAt(1) = PathAt(2) /\ PathAt(1) \in run[r].created) =>
            /\ DOMAIN files = {PathAt(1)}
            /\ files[PathAt(1)].content \in RenderingsAt(1)
            /\ files[PathAt(1)].content \notin RenderingsAt(2)
            /\ run[r].pc # "create"
            /\ LoopOver(r) =>
                   ItemEvents(r) = <<<<"create", "F1">>, <<"skip", "F1">>,
                                     <<"updatedFeed", "F1">>>>

\* C29 witness: the titles "a:" and "a/" gave one path, and the run is over
\* with the first item written and the second skipped.
C29_Witness ==
    \E r \in Runs :
        /\ web["F1"].body.items.list[1].title = XStr(<<Tok("a"), Tok(":")>>)
        /\ web["F1"].body.items.list[2].title = XStr(<<Tok("a"), Tok("/")>>)
        /\ run[r].pc = "done"
        /\ PathAt(1) = PathAt(2)
        /\ run[r].created = {PathAt(1)}
        /\ Events(r, "skip", "F1") # {}
        /\ files[PathAt(1)].content \in RenderingsAt(1)

----------------------------------------------------------------------------
(* The number fields of the settings tab *)

\* Number.isInteger
IsInteger(n) == n \notin {Infinity, 0 - Infinity}

\* C30: after any edits in the settings tab, updateInterval is an integer
\* that is at least 0 and autoDeleteDays is an integer that is at least 1.
C30_SettingsBounds ==
    /\ IsInteger(settings.updateInterval) /\ settings.updateInterval >= 0
    /\ IsInteger(settings.autoDeleteDays) /\ settings.autoDeleteDays >= 1

====
